---- MODULE Spec2Model ----
(***************************************************************************)
(* A model of prometheus-launchpad-exporter: the per-source build-status   *)
(* tracker (ubuntu.py, SourcePackage), the packageset aggregator and the   *)
(* queue fetch (ubuntu.py, UbuntuMetrics), the gauges and the refresh      *)
(* loops (metrics.py, Metrics) and the caches of launchpad.py (LP).        *)
(*                                                                         *)
(* Python dicts are functions whose DOMAIN is the set of keys present; a   *)
(* defaultdict inserts the key it is indexed with, which Vivify models.    *)
(* The remote archive is the environment: every answer it gives is drawn   *)
(* from a small set inside the action that asks.                           *)
(***************************************************************************)
EXTENDS Integers, Sequences, FiniteSets, TLC

VARIABLES
  heap,    \* the SourcePackage objects alive, by identity
  obs,     \* what the last per-pocket refresh asked the remote and got
  conf,    \* the series and packagesets UbuntuMetrics was constructed with
  series_source_map,             \* UbuntuMetrics._series_source_map
  series_packageset_source_map,  \* UbuntuMetrics._series_packageset_source_map
  pop,     \* the locals of the populate_packageset_maps call in progress
  tasks,   \* the packageset tasks of the pool that call has open
  cycle,   \* the UbuntuMetrics.fetch_build_statuses call in progress
  gauges,  \* the three Gauge objects of Metrics, each label set -> value
  last,    \* the operation that ran last and what it computed
  now,     \* the clock the caches read, in seconds
  packageset_sources_cache,  \* LP.packageset_sources_cache of one LP object
  series_queue_count_map,    \* UbuntuMetrics._series_queue_count_map
  date_created,  \* the creation time of the newest publication the remote has
  local,   \* the threading.local of the call in progress: thread -> its LP
  sched    \* Metrics.start, the refresh loops and the two stop events

vars == <<heap, obs, conf, series_source_map, series_packageset_source_map,
          pop, tasks, cycle, gauges, last, now, packageset_sources_cache,
          series_queue_count_map, date_created, local, sched>>
ubuntuVars == <<conf, series_source_map, series_packageset_source_map, pop, tasks>>
metricsVars == <<cycle, gauges, last>>
lpVars == <<now, packageset_sources_cache, date_created, local>>
queueVars == <<series_queue_count_map>>

----------------------------------------------------------------------------
(* Bounds of the model *)

MaxDate == 2        \* publication creation timestamps are 1..MaxDate
MaxRecords == 2     \* longest list of build records / binary publications
MaxPopulateCalls == 2   \* populate_packageset_maps calls in one behaviour
MaxCycles == 2          \* fetch_build_statuses calls in one behaviour
MaxMinutes == 120       \* the clock stops here
MaxUploads == 2         \* uploads waiting in the queues of the remote

(* Program constants *)

\* ubuntu.py:148, the pockets fetch_latest_build_status walks, in order
PocketOrder == <<"Backports", "Proposed", "Release", "Security", "Updates">>
Pockets == {PocketOrder[i] : i \in 1..Len(PocketOrder)}

Successful == "Successfully built"     \* ubuntu.py:45
Failed == "Failed to build"            \* ubuntu.py:54

(* Values the remote archive answers with *)

Architectures == {"amd64", "arm64"}
BuildStates == {Successful, Failed, "Currently building"}
Dates == 1..MaxDate
\* a publication is known by its creation date and carries one version
VersionOf(d) == 10 + d
\* the pockets the source has ever been published in
PublishedPockets == {"Release"}

----------------------------------------------------------------------------
(* Python dict helpers *)

EmptyDict == [k \in {} |-> 0]

Put(d, k, v) == [x \in (DOMAIN d) \cup {k} |-> IF x = k THEN v ELSE d[x]]

\* d[k] on a defaultdict whose factory yields an empty dict
Vivify(d, k) == IF k \in DOMAIN d THEN d ELSE Put(d, k, EmptyDict)

\* d.get(k)[a] style read that inserts nothing
Lookup(d, k) == IF k \in DOMAIN d THEN d[k] ELSE EmptyDict

\* a dict whose iteration order matters: its keys in insertion order
ODEmpty == [keys |-> <<>>, at |-> EmptyDict]
ODPut(d, k, v) ==
  [keys |-> IF k \in DOMAIN d.at THEN d.keys ELSE Append(d.keys, k),
   at |-> Put(d.at, k, v)]
ODGet(d, k, default) == IF k \in DOMAIN d.at THEN d.at[k] ELSE default
\* d.update(e)
RECURSIVE ODUpdate(_, _, _)
ODUpdate(d, e, i) ==
  IF i > Len(e.keys) THEN d
  ELSE ODUpdate(ODPut(d, e.keys[i], e.at[e.keys[i]]), e, i + 1)
\* plain dict.update
Update(d, e) == [k \in (DOMAIN d) \cup (DOMAIN e) |-> IF k \in DOMAIN e THEN e[k] ELSE d[k]]

----------------------------------------------------------------------------
(* SourcePackage, ubuntu.py:27-155 *)

SourcePackage(name, series_name) ==
  [name |-> name, series |-> series_name,
   last_time_checked |-> EmptyDict, build_status |-> EmptyDict]

\* mutant: the comparison inverted (== for !=)
AnyBuildsNotSuccessful_Inverted(p, pocket) ==
  \E a \in DOMAIN Lookup(p.build_status, pocket) :
     p.build_status[pocket][a][2] = Successful

\* any(state != "Successfully built" for _, state in build_status[pocket].values())
AnyBuildsNotSuccessful(p, pocket) ==
  \E a \in DOMAIN Lookup(p.build_status, pocket) :
     p.build_status[pocket][a][2] # Successful

\* pocket -> {arch -> (version, state)} restricted to "Failed to build"
\* mutant: every stored build is reported, whatever its state
GetFailedBuilds_All(p) ==
  [pocket \in DOMAIN p.build_status |->
     [a \in DOMAIN p.build_status[pocket] |-> p.build_status[pocket][a]]]

GetFailedBuilds(p) ==
  [pocket \in DOMAIN p.build_status |->
     [a \in {x \in DOMAIN p.build_status[pocket] :
                p.build_status[pocket][x][2] = Failed}
        |-> p.build_status[pocket][a]]]

HasAnyBuilds(p) == Cardinality(DOMAIN p.build_status) > 0

\* mutant: an entry already stored is left as it is
SetBuild_KeepStored(bs, pocket, arch, version, state) ==
  IF pocket \in DOMAIN bs /\ arch \in DOMAIN bs[pocket] THEN bs
  ELSE Put(bs, pocket, Put(Lookup(bs, pocket), arch, <<version, state>>))

\* self._build_status[pocket][arch] = (version, state)
SetBuild(bs, pocket, arch, version, state) ==
  Put(bs, pocket, Put(Lookup(bs, pocket), arch, <<version, state>>))

\* the loop over build_records, ubuntu.py:95-107: every record is written
RECURSIVE RecordBuilds(_, _, _, _, _)
RecordBuilds(bs, pocket, version, records, i) ==
  IF i > Len(records) THEN bs
  ELSE RecordBuilds(SetBuild(bs, pocket, records[i].arch, version, records[i].state),
                    pocket, version, records, i + 1)

\* mutant: seen_arches is not consulted, so the last build of an
\* architecture wins
RecordBinaries_LastWins(bs, pocket, version, bpphs, i, seen_arches) ==
  RecordBuilds(bs, pocket, version, bpphs, i)

\* the loop over binary publications, ubuntu.py:118-138: an architecture
\* already in seen_arches is passed over
RECURSIVE RecordBinaries(_, _, _, _, _, _)
RecordBinaries(bs, pocket, version, bpphs, i, seen_arches) ==
  IF i > Len(bpphs) THEN bs
  ELSE IF bpphs[i].arch \in seen_arches
       THEN RecordBinaries(bs, pocket, version, bpphs, i + 1, seen_arches)
       ELSE RecordBinaries(SetBuild(bs, pocket, bpphs[i].arch, version, bpphs[i].state),
                           pocket, version, bpphs, i + 1,
                           seen_arches \cup {bpphs[i].arch})

\* the comparison of ubuntu.py:76-78; the right operand of "and" indexes the
\* defaultdict and is evaluated only when the timestamps are equal
AlreadySeen(p, pocket, date) ==
  pocket \in DOMAIN p.last_time_checked /\ p.last_time_checked[pocket] = date

\* what the except clause of ubuntu.py:86-88 leaves behind
OnUnauthorized(p2) ==
  [sp |-> p2, outcome |-> "unauthorized", calls |-> {"getBuilds"}]

\* ubuntu.py:59-145 against one answer r of the remote
FetchLatestBuildStatusPocket(p, pocket, r) ==
  IF r.query = "error" THEN [sp |-> p, outcome |-> "raised", calls |-> {}]
  ELSE IF r.query = "empty" THEN [sp |-> p, outcome |-> "no_publication", calls |-> {}]
  ELSE
    LET seen == AlreadySeen(p, pocket, r.date)
        p1 == IF seen THEN [p EXCEPT !.build_status = Vivify(@, pocket)] ELSE p
    IN
    IF seen /\ ~AnyBuildsNotSuccessful(p1, pocket)
    THEN [sp |-> p1, outcome |-> "skipped", calls |-> {}]
    ELSE
      LET p2 == [p1 EXCEPT !.last_time_checked = Put(@, pocket, r.date)] IN
      CASE r.getBuilds = "unauthorized" -> OnUnauthorized(p2)
        [] r.getBuilds = "error" ->
             [sp |-> p2, outcome |-> "raised", calls |-> {"getBuilds"}]
        [] r.getBuilds = "ok" /\ Len(r.builds) > 0 ->
             [sp |-> [p2 EXCEPT !.build_status =
                         RecordBuilds(@, pocket, r.version, r.builds, 1)],
              outcome |-> "build_records", calls |-> {"getBuilds"}]
        [] r.getBuilds = "ok" /\ Len(r.builds) = 0 /\ r.getPublishedBinaries = "error" ->
             [sp |-> p2, outcome |-> "raised",
              calls |-> {"getBuilds", "getPublishedBinaries"}]
        [] OTHER ->
             [sp |-> [p2 EXCEPT !.build_status =
                         RecordBinaries(@, pocket, r.version, r.bpphs, 1, {})],
              outcome |-> "binaries",
              calls |-> {"getBuilds", "getPublishedBinaries"}]

NoObs == [id |-> <<>>, pocket |-> "", outcome |-> "none", calls |-> {}, date |-> 0,
          version |-> 0, builds |-> <<>>, bpphs |-> <<>>]

\* what the refresh asked the remote and what each call it made returned
Observe(id, pocket, r, res) ==
  [id |-> id, pocket |-> pocket, outcome |-> res.outcome, calls |-> res.calls,
   date |-> r.date, version |-> r.version,
   builds |-> IF "getBuilds" \in res.calls THEN r.builds ELSE <<>>,
   bpphs |-> IF "getPublishedBinaries" \in res.calls THEN r.bpphs ELSE <<>>]

----------------------------------------------------------------------------
(* UbuntuMetrics: construction and populate_packageset_maps, ubuntu.py:158-280 *)

\* what the remote knows
NameOrder == <<"bar", "foo">>
Names == {NameOrder[i] : i \in 1..Len(NameOrder)}
\* getSourcesIncluded(): the member names of a packageset, each once
MemberLists == {SelectSeq(NameOrder, LAMBDA n : n \in S) : S \in SUBSET Names}
\* all_current_series_names, launchpad.py:48-62
CurrentSeriesLists == {<<"noble">>, <<"jammy", "noble">>}
\* the names of get_all_packagesets_for_series, launchpad.py:82-84
PackagesetLists == {<<"core">>, <<"core", "desktop">>}

MaxWorkers == 10    \* ubuntu.py:253 and ubuntu.py:322

\* UbuntuMetrics.__init__, ubuntu.py:159-171
InitUbuntu(c) ==
  /\ conf = c
  /\ series_source_map = EmptyDict
  /\ series_packageset_source_map = ODEmpty
  /\ series_queue_count_map = EmptyDict
  /\ pop = [pc |-> "idle", calls |-> 0, outcome |-> "none", series_list |-> <<>>,
            sidx |-> 0, next |-> 0, acc_source_map |-> EmptyDict,
            acc_ps_map |-> ODEmpty, lock |-> 0]
  /\ tasks = <<>>

\* Metrics.__init__, metrics.py:43-56: three gauges with no value set; no
\* fetch_build_statuses call is open
NoCycle == [pc |-> "idle", calls |-> 0, series |-> "", tasks |-> <<>>]
NoGauges == [packageset_number_packages |-> EmptyDict,
             packageset_failed_builds |-> EmptyDict,
             queue_number_packages |-> EmptyDict]
\* start() has not been called, no loop exists, neither event is set
NoSched == [start |-> "new", completed |-> <<>>, initial |-> EmptyDict,
            fast |-> "new", slow |-> EmptyDict,
            stop_metrics_refresh_timer |-> FALSE,
            stop_fetch_build_statuses_timer |-> FALSE]
InitMetrics ==
  /\ cycle = NoCycle
  /\ gauges = NoGauges
  /\ last = [op |-> "init"]
  /\ sched = NoSched

\* LP.__init__, launchpad.py:25-34: the caches are empty
InitLP ==
  /\ now = 0
  /\ packageset_sources_cache = EmptyDict
  /\ date_created = 0
  /\ local = EmptyDict

\* series_to_consider, ubuntu.py:173-174: the remote is asked only when no
\* series was configured
SeriesToConsider == IF conf.series # <<>> THEN {conf.series} ELSE CurrentSeriesLists

\* packagesets_to_consider_for_series, ubuntu.py:176-184
PackagesetsToConsider == IF conf.packagesets # <<>> THEN {conf.packagesets} ELSE PackagesetLists

\* the identity of the object a task creates: the call, the series, the
\* packageset of the task and the name
NewId(call, series_name, packageset_name, source) ==
  <<call, series_name, packageset_name, source>>

\* mutant: only the task's own source_map is asked
FindSourcePackage_OwnOnly(published, source_map, series_name, source) ==
  IF source \in DOMAIN source_map THEN source_map[source] ELSE <<>>

\* ubuntu.py:209-211: the published map of the series is asked first, then
\* the task's own source_map
FindSourcePackage(published, source_map, series_name, source) ==
  IF source \in DOMAIN Lookup(published, series_name) THEN published[series_name][source]
  ELSE IF source \in DOMAIN source_map THEN source_map[source]
  ELSE <<>>

\* the objects the two published maps refer to
RangeOf(f) == {f[x] : x \in DOMAIN f}
Referenced(source_map, ps_map) ==
  UNION {RangeOf(source_map[s]) : s \in DOMAIN source_map}
  \cup UNION {UNION RangeOf(ps_map.at[s].at) : s \in DOMAIN ps_map.at}
\* an object nothing refers to any more is gone
Collect(h, live) == [id \in (DOMAIN h) \cap live |-> h[id]]

\* populate_packageset_maps up to the loop over the series, ubuntu.py:232-241
PopulateEnter ==
  /\ pop.pc = "idle"
  /\ pop.calls < MaxPopulateCalls
  /\ \E sl \in SeriesToConsider :
       pop' = [pc |-> "series", calls |-> pop.calls + 1, outcome |-> "none",
               series_list |-> sl, sidx |-> 1, next |-> 0,
               acc_source_map |-> EmptyDict, acc_ps_map |-> ODEmpty, lock |-> 0]
  /\ UNCHANGED <<heap, obs, conf, series_source_map, series_packageset_source_map, tasks,
                 cycle, gauges, lpVars, queueVars, sched>>

PopulateBegin ==
  /\ PopulateEnter
  /\ UNCHANGED last

NewTask(packageset_name) ==
  [packageset |-> packageset_name, pc |-> "queued", sources |-> <<>>, i |-> 1,
   source_map |-> EmptyDict, packageset_source_map |-> ODEmpty]

\* one turn of the loop over the series, ubuntu.py:241-262: the packageset
\* names are resolved and one task per name is handed to a new pool
SeriesBegin ==
  /\ pop.pc = "series"
  /\ pop.sidx <= Len(pop.series_list)
  /\ \E names \in PackagesetsToConsider :
       /\ tasks' = [k \in 1..Len(names) |-> NewTask(names[k])]
       /\ pop' = [pop EXCEPT !.pc = "pool", !.next = 1]
  /\ UNCHANGED <<heap, obs, conf, series_source_map, series_packageset_source_map, metricsVars, lpVars, queueVars, sched>>

Running == {k \in DOMAIN tasks : tasks[k].pc = "running"}

\* a worker takes the task up, ubuntu.py:195-206: the remote answers with
\* the member names or the call raises
TaskStart(k) ==
  /\ pop.pc = "pool"
  /\ tasks[k].pc = "queued"
  /\ Cardinality(Running) < MaxWorkers
  /\ \/ \E sources \in MemberLists :
          tasks' = [tasks EXCEPT ![k].pc = "running", ![k].sources = sources]
     \/ tasks' = [tasks EXCEPT ![k].pc = "raised"]
  /\ UNCHANGED <<heap, obs, conf, series_source_map, series_packageset_source_map, pop, metricsVars, lpVars, queueVars, sched>>

\* the block under the lock, ubuntu.py:209-216, for the next source of task k
LookupOrCreate(k) ==
  LET t == tasks[k]
      series_name == pop.series_list[pop.sidx]
      source == t.sources[t.i]
      found == FindSourcePackage(series_source_map, t.source_map, series_name, source)
      id == IF found = <<>> THEN NewId(pop.calls, series_name, t.packageset, source) ELSE found
  IN
  /\ t.pc = "running"
  /\ t.i <= Len(t.sources)
  /\ series_source_map' = Vivify(series_source_map, series_name)
  /\ heap' = IF found = <<>> THEN Put(heap, id, SourcePackage(source, series_name)) ELSE heap
  /\ tasks' = [tasks EXCEPT
                 ![k].i = t.i + 1,
                 ![k].source_map = Put(t.source_map, source, id),
                 ![k].packageset_source_map =
                    ODPut(@, t.packageset, ODGet(@, t.packageset, {}) \cup {id})]
  /\ UNCHANGED <<obs, conf, series_packageset_source_map, metricsVars, lpVars, queueVars, sched>>

\* one turn of the loop of ubuntu.py:207-217, all of it under the lock: the
\* lock is taken and given back within the step
TaskSource(k) ==
  /\ pop.lock = 0
  /\ LookupOrCreate(k)
  /\ UNCHANGED pop

\* the task returns its two maps, ubuntu.py:219
TaskFinish(k) ==
  /\ tasks[k].pc = "running"
  /\ tasks[k].i > Len(tasks[k].sources)
  /\ tasks' = [tasks EXCEPT ![k].pc = "done"]
  /\ UNCHANGED <<heap, obs, conf, series_source_map, series_packageset_source_map, pop, metricsVars, lpVars, queueVars, sched>>

\* ubuntu.py:264-267 for the next result of executor.map, in the order of
\* the packageset names
MergeInto(p, series_name, t) ==
  [p EXCEPT
     !.next = p.next + 1,
     !.acc_source_map =
        Put(@, series_name, Update(Lookup(@, series_name), t.source_map)),
     !.acc_ps_map =
        ODPut(@, series_name,
              ODUpdate(ODGet(@, series_name, ODEmpty), t.packageset_source_map, 1))]

\* mutant: every result is written into the published maps as it is merged
Merge_IntoPublished ==
  /\ pop.pc = "pool"
  /\ pop.next <= Len(tasks)
  /\ tasks[pop.next].pc = "done"
  /\ pop' = MergeInto(pop, pop.series_list[pop.sidx], tasks[pop.next])
  /\ series_source_map' = pop'.acc_source_map
  /\ series_packageset_source_map' = pop'.acc_ps_map
  /\ UNCHANGED <<heap, obs, conf, tasks, metricsVars, lpVars, queueVars, sched>>

Merge ==
  /\ pop.pc = "pool"
  /\ pop.next <= Len(tasks)
  /\ tasks[pop.next].pc = "done"
  /\ pop' = MergeInto(pop, pop.series_list[pop.sidx], tasks[pop.next])
  /\ UNCHANGED <<heap, obs, conf, series_source_map, series_packageset_source_map, tasks, metricsVars, lpVars, queueVars, sched>>

\* the next result is an exception: executor.map cancels the tasks not yet
\* started and the exception leaves the for loop
MergeRaises ==
  /\ pop.pc = "pool"
  /\ pop.next <= Len(tasks)
  /\ tasks[pop.next].pc = "raised"
  /\ pop' = [pop EXCEPT !.pc = "raising"]
  /\ tasks' = [k \in DOMAIN tasks |->
                 IF tasks[k].pc = "queued" THEN [tasks[k] EXCEPT !.pc = "cancelled"]
                 ELSE tasks[k]]
  /\ UNCHANGED <<heap, obs, conf, series_source_map, series_packageset_source_map, metricsVars, lpVars, queueVars, sched>>

\* the with block ends once every task has been merged, ubuntu.py:252-267
PoolExit ==
  /\ pop.pc = "pool"
  /\ pop.next > Len(tasks)
  /\ pop' = [pop EXCEPT !.pc = "series", !.sidx = pop.sidx + 1]
  /\ tasks' = <<>>
  /\ UNCHANGED <<heap, obs, conf, series_source_map, series_packageset_source_map, metricsVars, lpVars, queueVars, sched>>

\* mutant: a call that raises assigns what it has merged so far
PopulateRaises_Assigns ==
  /\ pop.pc = "raising"
  /\ Running = {}
  /\ pop' = [pop EXCEPT !.pc = "idle", !.outcome = "raised",
                         !.acc_source_map = EmptyDict, !.acc_ps_map = ODEmpty]
  /\ tasks' = <<>>
  /\ series_source_map' = pop.acc_source_map
  /\ series_packageset_source_map' = pop.acc_ps_map
  /\ heap' = Collect(heap, Referenced(pop.acc_source_map, pop.acc_ps_map))
  /\ UNCHANGED <<obs, conf, metricsVars, lpVars, queueVars, sched>>

\* the with block waits for the running tasks, then the exception leaves
\* populate_packageset_maps: nothing is assigned
PopulateRaises ==
  /\ pop.pc = "raising"
  /\ Running = {}
  /\ pop' = [pop EXCEPT !.pc = "idle", !.outcome = "raised",
                         !.acc_source_map = EmptyDict, !.acc_ps_map = ODEmpty]
  /\ tasks' = <<>>
  /\ heap' = Collect(heap, Referenced(series_source_map, series_packageset_source_map))
  /\ UNCHANGED <<obs, conf, series_source_map, series_packageset_source_map, metricsVars, lpVars, queueVars, sched>>

\* ubuntu.py:269-280: the two maps built by this call replace the published
\* ones
Publish ==
  /\ pop.pc = "series"
  /\ pop.sidx > Len(pop.series_list)
  /\ series_source_map' = pop.acc_source_map
  /\ series_packageset_source_map' = pop.acc_ps_map
  /\ pop' = [pop EXCEPT !.pc = "idle", !.outcome = "returned",
                         !.acc_source_map = EmptyDict, !.acc_ps_map = ODEmpty]
  /\ heap' = Collect(heap, Referenced(pop.acc_source_map, pop.acc_ps_map))
  /\ UNCHANGED <<obs, conf, tasks, metricsVars, lpVars, queueVars, sched>>

PopConfs == {[series |-> <<"noble">>, packagesets |-> <<"core", "desktop">>],
             [series |-> <<>>, packagesets |-> <<"core">>]}

InitPop ==
  /\ heap = EmptyDict
  /\ obs = NoObs
  /\ \E c \in PopConfs : InitUbuntu(c)
  /\ InitMetrics
  /\ InitLP

NextPop ==
  \/ PopulateBegin
  \/ SeriesBegin
  \/ \E k \in DOMAIN tasks : TaskStart(k)
  \/ \E k \in DOMAIN tasks : TaskSource(k)
  \/ \E k \in DOMAIN tasks : TaskFinish(k)
  \/ Merge
  \/ MergeRaises
  \/ PoolExit
  \/ PopulateRaises
  \/ Publish

SpecPop == InitPop /\ [][NextPop]_vars

\* SpecAtomic: populate_packageset_maps as in SpecPop, with the two published
\* maps as they are when the call begins kept in last
PopulateSeen ==
  /\ PopulateEnter
  /\ last' = [op |-> "populate_packageset_maps",
              source_map |-> series_source_map,
              packageset_source_map |-> series_packageset_source_map]

NextAtomic ==
  \/ PopulateSeen
  \/ SeriesBegin
  \/ \E k \in DOMAIN tasks : TaskStart(k)
  \/ \E k \in DOMAIN tasks : TaskSource(k)
  \/ \E k \in DOMAIN tasks : TaskFinish(k)
  \/ Merge
  \/ MergeRaises
  \/ PoolExit
  \/ PopulateRaises
  \/ Publish

SpecAtomic == InitPop /\ [][NextAtomic]_vars

\* SpecLock: populate_packageset_maps with the lock of ubuntu.py:232 followed
\* step by step: a task waits for the lock, then runs the block under it

\* `with lock:` is entered, ubuntu.py:208
LockAcquire(k) ==
  /\ tasks[k].pc = "running"
  /\ tasks[k].i <= Len(tasks[k].sources)
  /\ pop.lock = 0
  /\ pop' = [pop EXCEPT !.lock = k]
  /\ UNCHANGED <<heap, obs, conf, series_source_map, series_packageset_source_map, tasks, metricsVars, lpVars, queueVars, sched>>

\* mutant: the block runs without the lock
LockedSource_NoLock(k) ==
  /\ LookupOrCreate(k)
  /\ UNCHANGED pop

\* the block under the lock, ubuntu.py:209-216, and the release at its end
LockedSource(k) ==
  /\ pop.lock = k
  /\ LookupOrCreate(k)
  /\ pop' = [pop EXCEPT !.lock = 0]

NextLock ==
  \/ PopulateBegin
  \/ SeriesBegin
  \/ \E k \in DOMAIN tasks : TaskStart(k)
  \/ \E k \in DOMAIN tasks : LockAcquire(k)
  \/ \E k \in DOMAIN tasks : LockedSource(k)
  \/ \E k \in DOMAIN tasks : TaskFinish(k)
  \/ Merge
  \/ MergeRaises
  \/ PoolExit
  \/ PopulateRaises
  \/ Publish

SpecLock == InitPop /\ [][NextLock]_vars

\* C1 (dedup), as claimed: in the published maps, after any populate call,
\* a name that is a member of two packagesets of a series is held by both
\* as one and the same SourcePackage object, the one the published
\* name -> SourcePackage map of the series holds for that name.
C1_Dedup ==
  \A s \in DOMAIN series_packageset_source_map.at :
    \A ps1, ps2 \in DOMAIN series_packageset_source_map.at[s].at :
      \A id1 \in series_packageset_source_map.at[s].at[ps1],
         id2 \in series_packageset_source_map.at[s].at[ps2] :
        (ps1 # ps2 /\ heap[id1].name = heap[id2].name)
        => /\ id1 = id2
           /\ id1 = series_source_map[s][heap[id1].name]

----------------------------------------------------------------------------
(* The remote archive's answers to one per-pocket refresh *)

Records == [arch : Architectures, state : BuildStates]
RecordLists == UNION {[1..n -> Records] : n \in 0..MaxRecords}
\* binaries of a publication that also has build records
SpareBinaries == {<<[arch |-> "amd64", state |-> Failed], [arch |-> "arm64", state |-> Failed]>>}

NoAnswer(q) ==
  [query |-> q, date |-> 0, version |-> 0, getBuilds |-> "ok", builds |-> <<>>,
   getPublishedBinaries |-> "ok", bpphs |-> <<>>]

Found(d, g, b, h, c) ==
  [query |-> "found", date |-> d, version |-> VersionOf(d), getBuilds |-> g, builds |-> b,
   getPublishedBinaries |-> h, bpphs |-> c]

\* lp.get_published_sources(pocket, name, series, created_since_date)[0]:
\* the newest publication created since the date given (launchpad.py:119-136),
\* with what its getBuilds() and getPublishedBinaries() then answer
\* the ways a call of the remote may fail
Faults == {"query", "unauthorized", "getBuilds", "getPublishedBinaries"}

AnswersFrom(p, pocket, dates, lists, faults) ==
  {NoAnswer("empty")} \cup
  IF pocket \notin PublishedPockets THEN {}
  ELSE LET since == IF pocket \in DOMAIN p.last_time_checked
                    THEN p.last_time_checked[pocket] ELSE 0
           ds == {d \in dates : d >= since}
       IN {NoAnswer("error") : f \in faults \cap {"query"}}
          \cup {Found(d, "unauthorized", <<>>, "ok", <<>>) :
                  d \in ds, f \in faults \cap {"unauthorized"}}
          \cup {Found(d, "error", <<>>, "ok", <<>>) : d \in ds, f \in faults \cap {"getBuilds"}}
          \cup {Found(d, "ok", <<>>, "error", <<>>) :
                  d \in ds, f \in faults \cap {"getPublishedBinaries"}}
          \cup {Found(d, "ok", <<>>, "ok", c) : d \in ds, c \in lists}
          \cup {Found(d, "ok", b, "ok", c) :
                  d \in ds, b \in lists \ {<<>>}, c \in SpareBinaries}

Answers(p, pocket) == AnswersFrom(p, pocket, Dates, RecordLists, Faults)

----------------------------------------------------------------------------
(* SpecCycle: populate_packageset_maps taken as one step, and
   fetch_build_statuses task by task.  SpecGauge: populate_packageset_maps,
   fetch_build_statuses and update_packageset_count_metrics, each taken as
   one step. *)

\* fetch_packageset_for_series run from its first source to its last,
\* ubuntu.py:203-219
RECURSIVE RunTask(_, _, _, _, _)
RunTask(published, call, series_name, t, h) ==
  IF t.i > Len(t.sources) THEN [task |-> [t EXCEPT !.pc = "done"], heap |-> h]
  ELSE LET source == t.sources[t.i]
           found == FindSourcePackage(published, t.source_map, series_name, source)
           id == IF found = <<>> THEN NewId(call, series_name, t.packageset, source)
                 ELSE found
       IN RunTask(published, call, series_name,
                  [t EXCEPT !.i = t.i + 1,
                            !.source_map = Put(@, source, id),
                            !.packageset_source_map =
                               ODPut(@, t.packageset, ODGet(@, t.packageset, {}) \cup {id})],
                  IF found = <<>> THEN Put(h, id, SourcePackage(source, series_name)) ELSE h)

\* the tasks of one series run and merged in the order of the names,
\* ubuntu.py:252-267; members[k] is what the remote lists for names[k]
RECURSIVE RunSeries(_, _, _, _, _, _, _)
RunSeries(published, p, series_name, names, members, k, h) ==
  IF k > Len(names) THEN [pop |-> p, heap |-> h]
  ELSE LET r == RunTask(published, p.calls, series_name,
                        [NewTask(names[k]) EXCEPT !.sources = members[k]], h)
       IN RunSeries(published, MergeInto(p, series_name, r.task), series_name,
                    names, members, k + 1, r.heap)

\* the objects the open fetch_build_statuses call still holds
HeldByCycle == IF cycle.pc = "pool" THEN {cycle.tasks[k].id : k \in DOMAIN cycle.tasks} ELSE {}

\* what the remote lists as the members of a packageset
AggMemberLists == [core |-> {<<"bar", "foo">>}, desktop |-> {<<>>, <<"foo">>}]

\* populate_packageset_maps for one configured series, ubuntu.py:231-280
PopulateFrom(member_lists) ==
  /\ pop.pc = "idle"
  /\ pop.calls < MaxPopulateCalls
  /\ Len(conf.series) = 1
  /\ \E names \in PackagesetsToConsider :
     \E members \in {m \in [1..Len(names) -> MemberLists] :
                        \A k \in DOMAIN m : m[k] \in member_lists[names[k]]} :
       LET p0 == [pop EXCEPT !.calls = pop.calls + 1]
           r == RunSeries(series_source_map, p0, conf.series[1], names, members, 1, heap)
       IN /\ series_source_map' = r.pop.acc_source_map
          /\ series_packageset_source_map' = r.pop.acc_ps_map
          /\ heap' = Collect(r.heap, Referenced(r.pop.acc_source_map, r.pop.acc_ps_map)
                                        \cup HeldByCycle)
          /\ pop' = [p0 EXCEPT !.outcome = "returned"]
          /\ last' = [op |-> "populate_packageset_maps"]
  /\ UNCHANGED <<obs, conf, tasks, cycle, gauges, lpVars, queueVars>>

Populate == PopulateFrom(AggMemberLists)

\* the sources of the series, one element for every packageset that holds
\* the source, ubuntu.py:313-317
SetToSeq(S) ==
  CHOOSE q \in [1..Cardinality(S) -> S] : \A x \in S : \E i \in DOMAIN q : q[i] = x
RECURSIVE AllSources(_, _)
AllSources(packagesets, i) ==
  IF i > Len(packagesets.keys) THEN <<>>
  ELSE SetToSeq(packagesets.at[packagesets.keys[i]]) \o AllSources(packagesets, i + 1)

\* fetch_build_statuses up to the submits, ubuntu.py:311-325; the read of
\* the defaultdict at line 315 inserts the series when it is not a key
CycleBegin(series_name) ==
  /\ cycle.pc = "idle"
  /\ cycle.calls < MaxCycles
  /\ LET all_sources == AllSources(ODGet(series_packageset_source_map, series_name, ODEmpty), 1)
     IN cycle' = [pc |-> "pool", calls |-> cycle.calls + 1, series |-> series_name,
                  tasks |-> [k \in 1..Len(all_sources) |->
                               [id |-> all_sources[k], pc |-> "queued", outcomes |-> <<>>]]]
  /\ series_packageset_source_map' =
       IF series_name \in DOMAIN series_packageset_source_map.at
       THEN series_packageset_source_map
       ELSE ODPut(series_packageset_source_map, series_name, ODEmpty)
  /\ last' = [op |-> "fetch_build_statuses"]
  /\ UNCHANGED <<heap, obs, conf, series_source_map, pop, tasks, gauges, lpVars, queueVars, sched>>

\* mutant: the walk ends after its first pocket
WalkPockets_FirstOnly(p, answer, j, outcomes) ==
  LET res == FetchLatestBuildStatusPocket(p, PocketOrder[j], answer[PocketOrder[j]])
  IN [sp |-> res.sp, outcomes |-> Append(outcomes, res.outcome),
      pc |-> IF res.outcome = "raised" THEN "failed" ELSE "done"]

\* fetch_latest_build_status, ubuntu.py:147-151: the pockets in order, each
\* against the remote's answer for it; an exception ends the walk
RECURSIVE WalkPockets(_, _, _, _)
WalkPockets(p, answer, j, outcomes) ==
  IF j > Len(PocketOrder) THEN [sp |-> p, outcomes |-> outcomes, pc |-> "done"]
  ELSE LET res == FetchLatestBuildStatusPocket(p, PocketOrder[j], answer[PocketOrder[j]])
       IN IF res.outcome = "raised"
          THEN [sp |-> res.sp, outcomes |-> Append(outcomes, res.outcome), pc |-> "failed"]
          ELSE WalkPockets(res.sp, answer, j + 1, Append(outcomes, res.outcome))

\* mutant: an Unauthorized seen by one task ends the whole call, as if the
\* results of the futures were waited for one by one and the error left the
\* loop
AfterTask_Abort(c, k, walked) ==
  [c EXCEPT !.tasks =
     [j \in DOMAIN c.tasks |->
        IF j = k THEN [c.tasks[j] EXCEPT !.pc = walked.pc, !.outcomes = walked.outcomes]
        ELSE IF c.tasks[j].pc = "queued"
                /\ \E i \in DOMAIN walked.outcomes : walked.outcomes[i] = "unauthorized"
             THEN [c.tasks[j] EXCEPT !.pc = "cancelled"]
             ELSE c.tasks[j]]]

\* executor.submit, ubuntu.py:324-325: the future keeps the task's result
\* or exception and nobody asks for it; the other tasks are not touched
AfterTask(c, k, walked) ==
  [c EXCEPT !.tasks[k].pc = walked.pc, !.tasks[k].outcomes = walked.outcomes]

\* the answers the remote may give to the pockets of one walk
AggLists == {<<>>, <<[arch |-> "amd64", state |-> Failed]>>, <<[arch |-> "amd64", state |-> Successful]>>}
AggDates == {1}
WalkAnswersFrom(p, lists, faults) ==
  {[pocket \in Pockets |-> IF pocket = "Release" THEN r ELSE NoAnswer("empty")] :
     r \in AnswersFrom(p, "Release", AggDates, lists, faults)}
WalkAnswers(p) == WalkAnswersFrom(p, AggLists, Faults)

\* a worker runs one submitted task
CycleTask(k) ==
  /\ cycle.pc = "pool"
  /\ cycle.tasks[k].pc = "queued"
  /\ Cardinality({j \in DOMAIN cycle.tasks : cycle.tasks[j].pc = "running"}) < MaxWorkers
  /\ \E answer \in WalkAnswers(heap[cycle.tasks[k].id]) :
       LET walked == WalkPockets(heap[cycle.tasks[k].id], answer, 1, <<>>) IN
       /\ heap' = [heap EXCEPT ![cycle.tasks[k].id] = walked.sp]
       /\ cycle' = AfterTask(cycle, k, walked)
  /\ last' = [op |-> "fetch_latest_build_status"]
  /\ UNCHANGED <<obs, conf, series_source_map, series_packageset_source_map, pop, tasks,
                 gauges, lpVars, queueVars, sched>>

\* the with block of ubuntu.py:321-325 ends when no task is left to run
CycleEnd ==
  /\ cycle.pc = "pool"
  /\ \A k \in DOMAIN cycle.tasks : cycle.tasks[k].pc # "queued"
  /\ cycle' = [cycle EXCEPT !.pc = "idle", !.series = "", !.tasks = <<>>]
  /\ heap' = Collect(heap, Referenced(series_source_map, series_packageset_source_map))
  /\ last' = [op |-> "fetch_build_statuses_done"]
  /\ UNCHANGED <<obs, conf, series_source_map, series_packageset_source_map, pop, tasks,
                 gauges, lpVars, queueVars, sched>>

\* the property series_packageset_source_map, ubuntu.py:329-342, as the
\* list of (series, packageset, sources that have any builds) it is walked in
RECURSIVE ViewOfSeries(_, _, _)
ViewOfSeries(series_name, packagesets, i) ==
  IF i > Len(packagesets.keys) THEN <<>>
  ELSE <<[series |-> series_name, packageset |-> packagesets.keys[i],
          sources |-> {id \in packagesets.at[packagesets.keys[i]] : HasAnyBuilds(heap[id])}]>>
       \o ViewOfSeries(series_name, packagesets, i + 1)
RECURSIVE ViewFrom(_)
ViewFrom(i) ==
  IF i > Len(series_packageset_source_map.keys) THEN <<>>
  ELSE ViewOfSeries(series_packageset_source_map.keys[i],
                    series_packageset_source_map.at[series_packageset_source_map.keys[i]], 1)
       \o ViewFrom(i + 1)
View == ViewFrom(1)

\* failed_builds[pocket][arch] += 1 for every failed build of one source,
\* metrics.py:66-69; failed_builds is kept as (pocket, arch) -> count
Bump(failed_builds, keys) ==
  [key \in (DOMAIN failed_builds) \cup keys |->
     (IF key \in DOMAIN failed_builds THEN failed_builds[key] ELSE 0)
     + (IF key \in keys THEN 1 ELSE 0)]
FailedKeys(p) ==
  LET fbs == GetFailedBuilds(p) IN
  UNION {{<<pocket, a>> : a \in DOMAIN fbs[pocket]} : pocket \in DOMAIN fbs}
RECURSIVE CountSources(_, _)
CountSources(failed_builds, sources) ==
  IF sources = {} THEN failed_builds
  ELSE LET id == CHOOSE x \in sources : TRUE
       IN CountSources(Bump(failed_builds, FailedKeys(heap[id])), sources \ {id})
RECURSIVE CountView(_, _, _)
CountView(failed_builds, view, i) ==
  IF i > Len(view) THEN failed_builds
  ELSE CountView(CountSources(failed_builds, view[i].sources), view, i + 1)

\* the gauge writes of the first loop, metrics.py:62-64
RECURSIVE SetNumbers(_, _, _)
SetNumbers(g, view, i) ==
  IF i > Len(view) THEN g
  ELSE SetNumbers(Put(g, <<view[i].series, view[i].packageset>>,
                      Cardinality(view[i].sources)), view, i + 1)

\* update_packageset_count_metrics, metrics.py:58-81: the second loop
\* labels every count with the series and the packageset the first loop
\* ended on
UpdatePackagesetCountMetrics ==
  LET view == View
      failed_builds == CountView(EmptyDict, view, 1)
  IN
  /\ gauges' = [gauges EXCEPT
        !.packageset_number_packages = SetNumbers(@, view, 1),
        !.packageset_failed_builds =
           [key \in (DOMAIN @) \cup
                    {<<view[Len(view)].series, view[Len(view)].packageset, fb[1], fb[2]>> :
                       fb \in DOMAIN failed_builds}
              |-> IF <<key[3], key[4]>> \in DOMAIN failed_builds
                     /\ key[1] = view[Len(view)].series
                     /\ key[2] = view[Len(view)].packageset
                  THEN failed_builds[<<key[3], key[4]>>] ELSE @[key]]]
  /\ last' = [op |-> "update_packageset_count_metrics", failed_builds |-> failed_builds]
  /\ UNCHANGED <<heap, obs, conf, series_source_map, series_packageset_source_map, pop,
                 tasks, cycle, lpVars, queueVars>>

\* fetch_build_statuses from its first task to its last, one after the
\* other: the heaps the call may leave, ubuntu.py:311-327
RECURSIVE RunCycle(_, _, _, _, _)
RunCycle(h, all_sources, k, lists, faults) ==
  IF k > Len(all_sources) THEN {h}
  ELSE UNION {RunCycle([h EXCEPT ![all_sources[k]] =
                           WalkPockets(h[all_sources[k]], answer, 1, <<>>).sp],
                       all_sources, k + 1, lists, faults) :
                answer \in WalkAnswersFrom(h[all_sources[k]], lists, faults)}

FetchBuildStatusesFrom(series_name, lists, faults) ==
  /\ cycle.pc = "idle"
  /\ cycle.calls < MaxCycles
  /\ cycle' = [cycle EXCEPT !.calls = cycle.calls + 1]
  /\ heap' \in RunCycle(heap, AllSources(ODGet(series_packageset_source_map, series_name,
                                                ODEmpty), 1), 1, lists, faults)
  /\ series_packageset_source_map' =
       IF series_name \in DOMAIN series_packageset_source_map.at
       THEN series_packageset_source_map
       ELSE ODPut(series_packageset_source_map, series_name, ODEmpty)
  /\ last' = [op |-> "fetch_build_statuses"]
  /\ UNCHANGED <<obs, conf, series_source_map, pop, tasks, gauges, lpVars, queueVars>>

FetchBuildStatuses(series_name) == FetchBuildStatusesFrom(series_name, AggLists, Faults)

AggConfs == {[series |-> <<"noble">>, packagesets |-> <<"core", "desktop">>]}

InitAgg ==
  /\ heap = EmptyDict
  /\ obs = NoObs
  /\ \E c \in AggConfs : InitUbuntu(c)
  /\ InitMetrics
  /\ InitLP

NextCycle ==
  \/ Populate /\ UNCHANGED sched
  \/ \E series_name \in RangeOf(conf.series) : CycleBegin(series_name)
  \/ \E k \in DOMAIN cycle.tasks : CycleTask(k)
  \/ CycleEnd

SpecCycle == InitAgg /\ [][NextCycle]_vars

NextGauge ==
  \/ Populate /\ UNCHANGED sched
  \/ \E series_name \in RangeOf(conf.series) :
       FetchBuildStatuses(series_name) /\ UNCHANGED sched
  \/ UpdatePackagesetCountMetrics /\ UNCHANGED sched

SpecGauge == InitAgg /\ [][NextGauge]_vars

----------------------------------------------------------------------------
(* LP.get_packageset_sources and its time-limited cache, launchpad.py:30 and
   launchpad.py:89-99.  The cache is a cachetools TTLCache read through
   cachetools.cachedmethod; it holds far fewer keys than its maxsize of 512,
   so nothing is evicted for room. *)

PackagesetSourcesTTL == 60 * 60      \* launchpad.py:30, in seconds

\* the steps the clock makes between two calls
Advances == {30 * 60 - 1, 30 * 60 + 1, 31 * 60}

\* launchpad.py:91: the key of the cache entry
PackagesetSourcesKey(series_name, packageset_name) == <<series_name, packageset_name>>
CacheKeys == {PackagesetSourcesKey("noble", "core"), PackagesetSourcesKey("noble", "desktop")}
\* what getSourcesIncluded() may answer
CacheValues == {<<"foo">>, <<"bar", "foo">>}

\* mutant: an entry is served however long ago it was stored
Live_Forever(c, key, t) == key \in DOMAIN c

\* TTLCache.__getitem__: an entry is served while the clock is before the
\* time it expires at
Live(c, key, t) == key \in DOMAIN c /\ t < c[key].expires

\* TTLCache.__setitem__: the entries that have expired are dropped and the
\* new one expires ttl after now
Expire(c, t) == [key \in {x \in DOMAIN c : t < c[x].expires} |-> c[key]]
Store(c, key, v, t, ttl) == Put(Expire(c, t), key, [value |-> v, expires |-> t + ttl])

NoEntry == [value |-> <<>>, expires |-> 0]

\* cachedmethod around get_packageset_sources, launchpad.py:89-99: the
\* cache is asked first; on a KeyError getSourcesIncluded() runs, its result
\* is stored and returned, and an exception from it leaves the cache alone
GetPackagesetSources(series_name, packageset_name) ==
  LET key == PackagesetSourcesKey(series_name, packageset_name)
      before == IF key \in DOMAIN packageset_sources_cache
                THEN packageset_sources_cache[key] ELSE NoEntry
      call == [op |-> "get_packageset_sources", key |-> key, at |-> now,
               before |-> before]
  IN
  /\ IF Live(packageset_sources_cache, key, now)
     THEN /\ last' = call @@ [computed |-> FALSE, raised |-> FALSE,
                               value |-> packageset_sources_cache[key].value]
          /\ UNCHANGED packageset_sources_cache
     ELSE \/ \E v \in CacheValues :
               /\ packageset_sources_cache' =
                    Store(packageset_sources_cache, key, v, now, PackagesetSourcesTTL)
               /\ last' = call @@ [computed |-> TRUE, raised |-> FALSE, value |-> v]
          \/ /\ last' = call @@ [computed |-> TRUE, raised |-> TRUE, value |-> <<>>]
             /\ UNCHANGED packageset_sources_cache
  /\ UNCHANGED <<heap, obs, ubuntuVars, cycle, gauges, now, date_created, local, queueVars, sched>>

\* time passes
Tick ==
  /\ \E d \in Advances : now + d <= MaxMinutes * 60 /\ now' = now + d
  /\ UNCHANGED <<heap, obs, ubuntuVars, metricsVars, packageset_sources_cache, date_created, local,
                 queueVars, sched>>

InitCache ==
  /\ heap = EmptyDict
  /\ obs = NoObs
  /\ InitUbuntu([series |-> <<"noble">>, packagesets |-> <<"core", "desktop">>])
  /\ InitMetrics
  /\ InitLP

NextCache ==
  \/ \E key \in CacheKeys : GetPackagesetSources(key[1], key[2])
  \/ Tick

SpecCache == InitCache /\ [][NextCache]_vars

----------------------------------------------------------------------------
(* UbuntuMetrics.fetch_queues, ubuntu.py:282-309, and
   Metrics.update_queue_metrics, metrics.py:83-90 *)

QueueStatuses == <<"New", "Unapproved">>                                  \* ubuntu.py:290
QueuePockets == <<"Release", "Security", "Updates", "Proposed", "Backports">>   \* ubuntu.py:291-297

\* the uploads waiting at the remote: each is in the queue of one series,
\* status and pocket
UploadPlaces == {<<"noble", "New", "Release">>, <<"noble", "Unapproved", "Proposed">>,
                 <<"jammy", "New", "Updates">>}
Uploads == UNION {[1..n -> UploadPlaces] : n \in 0..MaxUploads}

\* series.getPackageUploads(status, pocket), launchpad.py:101-109
GetQueue(uploads, series_name, status, pocket) ==
  SelectSeq(uploads, LAMBDA u : u = <<series_name, status, pocket>>)

\* mutant: a queue that is empty gets no entry
SetCount_SkipEmpty(ret, series_name, pocket, status, n) ==
  IF n = 0 THEN ret
  ELSE Put(ret, series_name,
           Put(Lookup(ret, series_name), pocket,
               Put(Lookup(Lookup(ret, series_name), pocket), status, n)))

\* ret[series_name][pocket][status] = len(queue), ubuntu.py:306
SetCount(ret, series_name, pocket, status, n) ==
  Put(ret, series_name,
      Put(Lookup(ret, series_name), pocket,
          Put(Lookup(Lookup(ret, series_name), pocket), status, n)))

\* the three loops of ubuntu.py:287-307, from series i, status j, pocket k on
RECURSIVE CountQueues(_, _, _, _, _, _)
CountQueues(ret, series_list, uploads, i, j, k) ==
  IF i > Len(series_list) THEN ret
  ELSE IF j > Len(QueueStatuses) THEN CountQueues(ret, series_list, uploads, i + 1, 1, 1)
  ELSE IF k > Len(QueuePockets) THEN CountQueues(ret, series_list, uploads, i, j + 1, 1)
  ELSE CountQueues(SetCount(ret, series_list[i], QueuePockets[k], QueueStatuses[j],
                            Len(GetQueue(uploads, series_list[i], QueueStatuses[j],
                                         QueuePockets[k]))),
                   series_list, uploads, i, j, k + 1)

\* fetch_queues returns: the map it built replaces the published one
FetchQueuesFrom(waiting) ==
  /\ \E series_list \in SeriesToConsider, uploads \in waiting :
       /\ series_queue_count_map' = CountQueues(EmptyDict, series_list, uploads, 1, 1, 1)
       /\ last' = [op |-> "fetch_queues", series_list |-> series_list, uploads |-> uploads]
  /\ UNCHANGED <<heap, obs, ubuntuVars, cycle, gauges, lpVars>>

FetchQueues == FetchQueuesFrom(Uploads)

\* a call of the remote raises inside fetch_queues: nothing is assigned
FetchQueuesRaises ==
  /\ last' = [op |-> "fetch_queues_raised"]
  /\ UNCHANGED <<heap, obs, ubuntuVars, cycle, gauges, lpVars, queueVars>>

\* the (series, pocket, status) label sets of a queue-count map
QueueLabels(m) ==
  UNION {UNION {{<<s, p, st>> : st \in DOMAIN m[s][p]} : p \in DOMAIN m[s]} : s \in DOMAIN m}

\* update_queue_metrics, metrics.py:83-90
UpdateQueueMetrics ==
  /\ gauges' = [gauges EXCEPT !.queue_number_packages =
                  [key \in (DOMAIN @) \cup QueueLabels(series_queue_count_map) |->
                     IF key \in QueueLabels(series_queue_count_map)
                     THEN series_queue_count_map[key[1]][key[2]][key[3]]
                     ELSE @[key]]]
  /\ last' = [op |-> "update_queue_metrics"]
  /\ UNCHANGED <<heap, obs, ubuntuVars, cycle, lpVars, queueVars>>

QueueConfs == {[series |-> <<"noble">>, packagesets |-> <<>>],
               [series |-> <<>>, packagesets |-> <<>>]}

InitQueue ==
  /\ heap = EmptyDict
  /\ obs = NoObs
  /\ \E c \in QueueConfs : InitUbuntu(c)
  /\ InitMetrics
  /\ InitLP

NextQueue ==
  \/ FetchQueues /\ UNCHANGED sched
  \/ FetchQueuesRaises /\ UNCHANGED sched
  \/ UpdateQueueMetrics /\ UNCHANGED sched

SpecQueue == InitQueue /\ [][NextQueue]_vars

----------------------------------------------------------------------------
(* Metrics.start, the two refresh loops and Metrics.stop, metrics.py:92-148.
   metrics.py:40 builds UbuntuMetrics without its packagesets argument and
   metrics.py:98 and 112 hand populate_packageset_maps an argument it does
   not take; the calls are modelled by the method they name, with the
   series and packagesets Metrics was given. *)

\* populate_packageset_maps raises: the remote failed one of its tasks and
\* nothing is assigned, ubuntu.py:231-280
PopulateFails ==
  /\ pop.pc = "idle"
  /\ pop.calls < MaxPopulateCalls
  /\ pop' = [pop EXCEPT !.calls = pop.calls + 1, !.outcome = "raised"]
  /\ last' = [op |-> "populate_packageset_maps_raised"]
  /\ UNCHANGED <<heap, obs, conf, series_source_map, series_packageset_source_map, tasks,
                 cycle, gauges, lpVars, queueVars>>

\* what the remote shows while the loops are followed
SchedMemberLists == [core |-> {<<"foo">>}, desktop |-> {<<>>, <<"foo">>}]
SchedLists == {<<[arch |-> "amd64", state |-> Failed]>>,
               <<[arch |-> "amd64", state |-> Successful]>>}
SchedUploads == {<<>>, <<<<"noble", "New", "Release">>>>}
SchedPopulate == PopulateFrom(SchedMemberLists)
SchedFetchBuildStatuses(series_name) == FetchBuildStatusesFrom(series_name, SchedLists, {"unauthorized"})
SchedFetchQueues == FetchQueuesFrom(SchedUploads)

\* what start() has completed so far, in order
Completed(step) == [sched EXCEPT !.completed = Append(@, step)]

\* metrics.py:112
StartPopulate ==
  /\ sched.start = "new"
  /\ \/ SchedPopulate /\ sched' = [Completed("populate_packageset_maps") EXCEPT
                                  !.start = "fetch_queues"]
     \/ PopulateFails /\ sched' = [sched EXCEPT !.start = "raised"]

\* metrics.py:113
StartFetchQueues ==
  /\ sched.start = "fetch_queues"
  /\ \/ SchedFetchQueues /\ sched' = [Completed("fetch_queues") EXCEPT !.start = "threads"]
     \/ FetchQueuesRaises /\ sched' = [sched EXCEPT !.start = "raised"]

\* metrics.py:115-121: one thread for every series to consider
StartThreads ==
  /\ sched.start = "threads"
  /\ \E series_list \in SeriesToConsider :
       sched' = [sched EXCEPT !.start = "join",
                              !.initial = [s \in RangeOf(series_list) |-> "running"]]
  /\ last' = [op |-> "start_threads"]
  /\ UNCHANGED <<heap, obs, ubuntuVars, cycle, gauges, lpVars, queueVars>>

\* the thread of one series runs UbuntuMetrics.fetch_build_statuses
InitialFetch(series_name) ==
  /\ series_name \in DOMAIN sched.initial
  /\ sched.initial[series_name] = "running"
  /\ SchedFetchBuildStatuses(series_name)
  /\ sched' = [sched EXCEPT !.initial[series_name] = "done"]

\* mutant: start() goes on without waiting for its threads
Joined_NoWait(initial) == TRUE

\* metrics.py:123-124: t.join() for every thread
Joined(initial) == \A s \in DOMAIN initial : initial[s] = "done"

StartJoin ==
  /\ sched.start = "join"
  /\ Joined(sched.initial)
  /\ sched' = [Completed("fetch_build_statuses") EXCEPT !.start = "update_packageset"]
  /\ last' = [op |-> "join"]
  /\ UNCHANGED <<heap, obs, ubuntuVars, cycle, gauges, lpVars, queueVars>>

\* metrics.py:126
StartUpdatePackageset ==
  /\ sched.start = "update_packageset"
  /\ UpdatePackagesetCountMetrics
  /\ sched' = [Completed("update_packageset_count_metrics") EXCEPT !.start = "update_queue"]

\* metrics.py:127
StartUpdateQueue ==
  /\ sched.start = "update_queue"
  /\ UpdateQueueMetrics
  /\ sched' = [Completed("update_queue_metrics") EXCEPT !.start = "gather"]

\* metrics.py:129-139: the fast loop and one slow loop for every series to
\* consider are handed to threads
StartGather ==
  /\ sched.start = "gather"
  /\ \E series_list \in SeriesToConsider :
       sched' = [sched EXCEPT !.start = "serving", !.fast = "enter",
                              !.slow = [s \in RangeOf(series_list) |-> "enter"]]
  /\ last' = [op |-> "gather"]
  /\ UNCHANGED <<heap, obs, ubuntuVars, cycle, gauges, lpVars, queueVars>>

\* mutant: the wait reports a timeout whatever the event says
Wait_TimedOut(flag) == FALSE

\* Event.wait(timeout): the value of the flag when the wait ends
Wait(flag) == flag

\* the position of a loop after its while test, metrics.py:93 and 105
AfterWhile(flag) == IF flag THEN "returned" ELSE "waiting"
\* the position of a loop after its wait, metrics.py:94-95 and 106-107
AfterWait(flag) == IF Wait(flag) THEN "returned" ELSE "work"

LoopStep(loop, place, flag) ==
  /\ last' = [op |-> "loop", loop |-> loop, place |-> place, flag |-> flag]
  /\ UNCHANGED <<heap, obs, ubuntuVars, cycle, gauges, lpVars, queueVars>>

\* refresh_metrics_timer, metrics.py:92-102
FastWhile ==
  /\ sched.fast = "enter"
  /\ sched' = [sched EXCEPT !.fast = AfterWhile(sched.stop_metrics_refresh_timer)]
  /\ LoopStep("fast", "while", sched.stop_metrics_refresh_timer)

\* the wait times out only while another populate call fits the bound
FastWait ==
  /\ sched.fast = "waiting"
  /\ sched.stop_metrics_refresh_timer \/ pop.calls < MaxPopulateCalls
  /\ sched' = [sched EXCEPT !.fast = IF AfterWait(sched.stop_metrics_refresh_timer) = "work"
                                      THEN "populate" ELSE "returned"]
  /\ LoopStep("fast", "wait", sched.stop_metrics_refresh_timer)

FastPopulate ==
  /\ sched.fast = "populate"
  /\ \/ SchedPopulate /\ sched' = [sched EXCEPT !.fast = "fetch_queues"]
     \/ PopulateFails /\ sched' = [sched EXCEPT !.fast = "raised"]

FastFetchQueues ==
  /\ sched.fast = "fetch_queues"
  /\ \/ SchedFetchQueues /\ sched' = [sched EXCEPT !.fast = "update_packageset"]
     \/ FetchQueuesRaises /\ sched' = [sched EXCEPT !.fast = "raised"]

FastUpdatePackageset ==
  /\ sched.fast = "update_packageset"
  /\ UpdatePackagesetCountMetrics
  /\ sched' = [sched EXCEPT !.fast = "update_queue"]

FastUpdateQueue ==
  /\ sched.fast = "update_queue"
  /\ UpdateQueueMetrics
  /\ sched' = [sched EXCEPT !.fast = "enter"]

\* Metrics.fetch_build_statuses(series), metrics.py:104-108
SlowWhile(series_name) ==
  /\ sched.slow[series_name] = "enter"
  /\ sched' = [sched EXCEPT
                 !.slow[series_name] = AfterWhile(sched.stop_fetch_build_statuses_timer)]
  /\ LoopStep(series_name, "while", sched.stop_fetch_build_statuses_timer)

\* the wait times out only while another fetch call fits the bound
SlowWait(series_name) ==
  /\ sched.slow[series_name] = "waiting"
  /\ sched.stop_fetch_build_statuses_timer \/ cycle.calls < MaxCycles
  /\ sched' = [sched EXCEPT
                 !.slow[series_name] =
                    IF AfterWait(sched.stop_fetch_build_statuses_timer) = "work"
                    THEN "fetch_build_statuses" ELSE "returned"]
  /\ LoopStep(series_name, "wait", sched.stop_fetch_build_statuses_timer)

SlowFetch(series_name) ==
  /\ sched.slow[series_name] = "fetch_build_statuses"
  /\ SchedFetchBuildStatuses(series_name)
  /\ sched' = [sched EXCEPT !.slow[series_name] = "enter"]

\* Metrics.stop, metrics.py:145-148: the two events are set one after the
\* other
StopMetricsRefresh ==
  /\ ~sched.stop_metrics_refresh_timer
  /\ sched' = [sched EXCEPT !.stop_metrics_refresh_timer = TRUE]
  /\ last' = [op |-> "stop"]
  /\ UNCHANGED <<heap, obs, ubuntuVars, cycle, gauges, lpVars, queueVars>>

\* mutant: stop() leaves the event of the build status loops unset
StopFetchBuildStatuses_Unset ==
  /\ sched.stop_metrics_refresh_timer
  /\ ~sched.stop_fetch_build_statuses_timer
  /\ last # [op |-> "stop_fetch_build_statuses"]
  /\ last' = [op |-> "stop_fetch_build_statuses"]
  /\ UNCHANGED <<heap, obs, ubuntuVars, cycle, gauges, lpVars, queueVars, sched>>

StopFetchBuildStatuses ==
  /\ sched.stop_metrics_refresh_timer
  /\ ~sched.stop_fetch_build_statuses_timer
  /\ sched' = [sched EXCEPT !.stop_fetch_build_statuses_timer = TRUE]
  /\ last' = [op |-> "stop"]
  /\ UNCHANGED <<heap, obs, ubuntuVars, cycle, gauges, lpVars, queueVars>>

SchedConfs == {[series |-> <<"noble">>, packagesets |-> <<"core", "desktop">>]}

InitSched ==
  /\ heap = EmptyDict
  /\ obs = NoObs
  /\ \E c \in SchedConfs : InitUbuntu(c)
  /\ InitMetrics
  /\ InitLP

NextSched ==
  \/ StartPopulate
  \/ StartFetchQueues
  \/ StartThreads
  \/ \E series_name \in DOMAIN sched.initial : InitialFetch(series_name)
  \/ StartJoin
  \/ StartUpdatePackageset
  \/ StartUpdateQueue
  \/ StartGather
  \/ FastWhile
  \/ FastWait
  \/ FastPopulate
  \/ FastFetchQueues
  \/ FastUpdatePackageset
  \/ FastUpdateQueue
  \/ \E series_name \in DOMAIN sched.slow : SlowWhile(series_name)
  \/ \E series_name \in DOMAIN sched.slow : SlowWait(series_name)
  \/ \E series_name \in DOMAIN sched.slow : SlowFetch(series_name)
  \/ StopMetricsRefresh
  \/ StopFetchBuildStatuses

SpecSched == InitSched /\ [][NextSched]_vars

\* the positions of a loop inside a cycle, and those of a thread that ended
FastWork == {"populate", "fetch_queues", "update_packageset", "update_queue"}
SlowWork == {"fetch_build_statuses"}
Ended == {"returned", "raised"}

\* the fast loop can take a step: it is at its while test or inside a cycle,
\* or its wait can end
FastCanMove ==
  \/ sched.fast \in {"enter"} \cup FastWork
  \/ sched.fast = "waiting"
     /\ (sched.stop_metrics_refresh_timer \/ pop.calls < MaxPopulateCalls)
\* the fast loop moves on
FastMoves ==
  /\ FastCanMove
  /\ \E pc \in {"enter", "waiting"} \cup FastWork \cup Ended :
       pc # sched.fast /\ sched' = [sched EXCEPT !.fast = pc]

SlowCanMove(series_name) ==
  \/ sched.slow[series_name] \in {"enter"} \cup SlowWork
  \/ sched.slow[series_name] = "waiting"
     /\ (sched.stop_fetch_build_statuses_timer \/ cycle.calls < MaxCycles)
\* the loop of one series moves on
SlowMoves(series_name) ==
  /\ series_name \in DOMAIN sched.slow
  /\ SlowCanMove(series_name)
  /\ \E pc \in {"enter", "waiting"} \cup SlowWork \cup Ended :
       pc # sched.slow[series_name] /\ sched' = [sched EXCEPT !.slow[series_name] = pc]

\* the series a loop may exist for
LoopSeries == {"jammy", "noble"}

\* a loop thread that can take a step takes one in the end: the calls of the
\* remote return or raise and a wait ends once its event is set or its time
\* is up; stop() sets its second event after the first
SpecSchedLive ==
  /\ SpecSched
  /\ WF_sched(FastMoves)
  /\ \A series_name \in LoopSeries : WF_sched(SlowMoves(series_name))
  /\ WF_vars(StopFetchBuildStatuses)

----------------------------------------------------------------------------
(* SpecTrack: one SourcePackage refreshed pocket by pocket *)

\* the one object of SpecTrack, as SourcePackage("foo", "noble") builds it
TrackedId == <<0, "noble", "", "foo">>
sp == heap[TrackedId]

InitTrack ==
  /\ heap = [id \in {TrackedId} |-> SourcePackage("foo", "noble")]
  /\ obs = NoObs
  /\ InitUbuntu([series |-> <<>>, packagesets |-> <<>>])
  /\ InitMetrics
  /\ InitLP

\* one call of SourcePackage._fetch_latest_build_status_pocket
RefreshPocket(id, pocket) ==
  \E r \in Answers(heap[id], pocket) :
    LET res == FetchLatestBuildStatusPocket(heap[id], pocket, r) IN
    /\ heap' = [heap EXCEPT ![id] = res.sp]
    /\ obs' = Observe(id, pocket, r, res)
    /\ UNCHANGED <<ubuntuVars, metricsVars, lpVars, queueVars, sched>>

NextTrack == \E pocket \in Pockets : RefreshPocket(TrackedId, pocket)

SpecTrack == InitTrack /\ [][NextTrack]_vars

----------------------------------------------------------------------------
(* SpecShield: the LP objects and caches the cycles of the fast loop look
   the remote up through. Each populate_packageset_maps and fetch_queues
   call makes a threading.local of its own and calls make_lp on it; every
   worker thread of a pool runs make_lp as its initializer. A
   threading.local holds one value per thread, so make_lp finds an LP only
   in a thread that already made one for this very call. *)

CallerThread == "caller"
WorkerThreads == {"worker1", "worker2"}
QueueTTL == 1 * 60      \* launchpad.py:32, in seconds
RefreshPeriod == 60     \* metrics.py:94, in seconds
ShieldWaits == {RefreshPeriod, 60 * 60}
ShieldQueueKeys == {<<"noble", "New", "Release">>}
ShieldQueueValues == {0, 1}

\* LP.__init__, launchpad.py:28-34: the caches of a new LP are empty
NewLP == [packageset_sources_cache |-> EmptyDict, queue_cache |-> EmptyDict]

\* make_lp, ubuntu.py:221-229, called in thread t
MakeLP(l, t) == IF t \in DOMAIN l THEN l ELSE Put(l, t, NewLP)

\* the lookups made so far: key -> when and in which cycle it was last asked
Lookups(l) == IF "lookups" \in DOMAIN l THEN l.lookups ELSE EmptyDict

ShieldFrame ==
  UNCHANGED <<heap, obs, conf, series_source_map, series_packageset_source_map, tasks,
              cycle, gauges, now, packageset_sources_cache, date_created, queueVars, sched>>

\* populate_packageset_maps begins, ubuntu.py:232-239: a new threading.local
\* and make_lp in the calling thread
ShieldPopulate ==
  /\ pop.pc = "idle"
  /\ pop.calls < MaxPopulateCalls
  /\ pop' = [pop EXCEPT !.pc = "pool", !.calls = pop.calls + 1]
  /\ local' = MakeLP(EmptyDict, CallerThread)
  /\ UNCHANGED last
  /\ ShieldFrame

\* a worker thread of the pool starts, ubuntu.py:252-254: its initializer is
\* make_lp on the threading.local of the call
ShieldWorker(t) ==
  /\ pop.pc = "pool"
  /\ t \notin DOMAIN local
  /\ local' = MakeLP(local, t)
  /\ UNCHANGED <<pop, last>>
  /\ ShieldFrame

\* the lookup of one key in the cache c of kind (the cachedmethod of
\* launchpad.py:89-99 or 101-109) by thread t
ShieldLookup(t, kind, key, ttl, values) ==
  LET c == local[t][kind]
      call == [op |-> kind, key |-> key, at |-> now, cycle |-> pop.calls,
               lookups |-> Put(Lookups(last), key, [at |-> now, cycle |-> pop.calls])]
  IN
  /\ key \in DOMAIN Lookups(last) => Lookups(last)[key].cycle < pop.calls
  /\ IF Live(c, key, now)
     THEN /\ last' = call @@ [computed |-> FALSE]
          /\ UNCHANGED local
     ELSE \E v \in values :
            /\ local' = [local EXCEPT ![t][kind] = Store(c, key, v, now, ttl)]
            /\ last' = call @@ [computed |-> TRUE]
  /\ UNCHANGED pop
  /\ ShieldFrame

\* a task of the pool, ubuntu.py:195-201: lp = local.lp of the worker thread
\* it runs in, then get_packageset_sources
ShieldGetSources(t, key) ==
  /\ pop.pc = "pool"
  /\ t \in WorkerThreads \cap DOMAIN local
  /\ ShieldLookup(t, "packageset_sources_cache", key, PackagesetSourcesTTL, CacheValues)

\* fetch_queues begins, ubuntu.py:283-284: a new threading.local and make_lp
\* in the calling thread
ShieldFetchQueues ==
  /\ pop.pc = "pool"
  /\ pop' = [pop EXCEPT !.pc = "queues"]
  /\ local' = MakeLP(EmptyDict, CallerThread)
  /\ UNCHANGED last
  /\ ShieldFrame

\* lp.get_queue in the calling thread, ubuntu.py:298
ShieldGetQueue(key) ==
  /\ pop.pc = "queues"
  /\ ShieldLookup(CallerThread, "queue_cache", key, QueueTTL, ShieldQueueValues)

\* the cycle ends and the loop waits for its next one, metrics.py:93-95
ShieldWait ==
  /\ pop.pc = "queues"
  /\ pop' = [pop EXCEPT !.pc = "idle"]
  /\ \E w \in ShieldWaits : now' = now + w
  /\ UNCHANGED <<heap, obs, conf, series_source_map, series_packageset_source_map, tasks,
                 metricsVars, packageset_sources_cache, date_created, local, queueVars, sched>>

NextShield ==
  \/ ShieldPopulate
  \/ \E t \in WorkerThreads : ShieldWorker(t)
  \/ \E t \in WorkerThreads, key \in CacheKeys : ShieldGetSources(t, key)
  \/ ShieldFetchQueues
  \/ \E key \in ShieldQueueKeys : ShieldGetQueue(key)
  \/ ShieldWait

SpecShield == InitAgg /\ [][NextShield]_vars

----------------------------------------------------------------------------
(* SpecBound: one worker pool from its creation to the end of its with
   block, with as many tasks as the caller dispatches. The pool is a
   ThreadPoolExecutor(max_workers=10): its work queue is first in first
   out, a task starts when one of the 10 workers is free, and the end of
   the with block is shutdown(wait=True). populate_packageset_maps reads
   the results in order through executor.map; fetch_build_statuses submits
   and never asks for a result. *)

MaxExtra == 1
Dispatched == {1, MaxWorkers + MaxExtra}
PoolCalls == {"populate_packageset_maps", "fetch_build_statuses"}

BoundFrame ==
  UNCHANGED <<heap, obs, conf, series_source_map, series_packageset_source_map,
              cycle, gauges, lpVars, queueVars, sched>>

\* the pool is made and every task is handed to it, ubuntu.py:252-263 and
\* 321-325
BoundOpen(call, n) ==
  /\ pop.pc = "idle"
  /\ tasks' = [k \in 1..n |-> [pc |-> "queued"]]
  /\ pop' = [pop EXCEPT !.pc = "pool", !.next = 1]
  /\ last' = [op |-> call, returned |-> FALSE]
  /\ BoundFrame

\* mutant: a task starts as soon as it is dispatched, whatever the number
\* of tasks running
BoundStart_Unbounded(k) ==
  /\ pop.pc \in {"pool", "raising"}
  /\ tasks[k].pc = "queued"
  /\ \A j \in 1..(k - 1) : tasks[j].pc # "queued"
  /\ tasks' = [tasks EXCEPT ![k].pc = "running"]
  /\ UNCHANGED <<pop, last>>
  /\ BoundFrame

\* a free worker takes the oldest task of the queue
BoundStart(k) ==
  /\ pop.pc \in {"pool", "raising"}
  /\ tasks[k].pc = "queued"
  /\ \A j \in 1..(k - 1) : tasks[j].pc # "queued"
  /\ Cardinality(Running) < MaxWorkers
  /\ tasks' = [tasks EXCEPT ![k].pc = "running"]
  /\ UNCHANGED <<pop, last>>
  /\ BoundFrame

\* a running task returns or raises; the future keeps the outcome. Nobody
\* asks the futures of fetch_build_statuses for it (ubuntu.py:324-325), so
\* the two outcomes are one there
Outcomes(call) == IF call = "populate_packageset_maps" THEN {"done", "raised"} ELSE {"done"}
BoundFinish(k) ==
  /\ tasks[k].pc = "running"
  /\ \E outcome \in Outcomes(last.op) : tasks' = [tasks EXCEPT ![k].pc = outcome]
  /\ UNCHANGED <<pop, last>>
  /\ BoundFrame

\* the next result of executor.map, ubuntu.py:255-267: the loop goes on
\* when the task returned; when it raised, the tasks not yet started are
\* cancelled and the exception leaves the loop
BoundResult ==
  /\ last.op = "populate_packageset_maps"
  /\ pop.pc = "pool"
  /\ pop.next <= Len(tasks)
  /\ \/ /\ tasks[pop.next].pc = "done"
        /\ pop' = [pop EXCEPT !.next = pop.next + 1]
        /\ UNCHANGED tasks
     \/ /\ tasks[pop.next].pc = "raised"
        /\ pop' = [pop EXCEPT !.pc = "raising"]
        /\ tasks' = [k \in DOMAIN tasks |->
                       IF tasks[k].pc = "queued" THEN [tasks[k] EXCEPT !.pc = "cancelled"]
                       ELSE tasks[k]]
  /\ UNCHANGED last
  /\ BoundFrame

\* the caller has reached the end of the with block: after the last result
\* or with the exception (ubuntu.py:267), or after the last submit
\* (ubuntu.py:325)
AtWithExit ==
  \/ pop.pc = "raising"
  \/ pop.pc = "pool" /\ last.op = "populate_packageset_maps" /\ pop.next > Len(tasks)
  \/ pop.pc = "pool" /\ last.op = "fetch_build_statuses"

\* mutant: the with block ends without waiting for the workers
BoundExit_NoWait ==
  /\ AtWithExit
  /\ pop' = [pop EXCEPT !.pc = "idle"]
  /\ last' = [last EXCEPT !.returned = TRUE]
  /\ UNCHANGED tasks
  /\ BoundFrame

\* the with block ends, ubuntu.py:252 and 321: shutdown(wait=True) returns
\* when the queue is empty and every worker has ended
BoundExit ==
  /\ AtWithExit
  /\ \A k \in DOMAIN tasks : tasks[k].pc \notin {"queued", "running"}
  /\ pop' = [pop EXCEPT !.pc = "idle"]
  /\ last' = [last EXCEPT !.returned = TRUE]
  /\ UNCHANGED tasks
  /\ BoundFrame

NextBound ==
  \/ \E call \in PoolCalls, n \in Dispatched : BoundOpen(call, n)
  \/ \E k \in DOMAIN tasks : BoundStart(k)
  \/ \E k \in DOMAIN tasks : BoundFinish(k)
  \/ BoundResult
  \/ BoundExit

SpecBound == InitAgg /\ [][NextBound]_vars

----------------------------------------------------------------------------
(* SpecRace: the tasks of one fetch_build_statuses call on a SourcePackage
   that two packagesets hold, followed call by call of the remote. A worker
   thread gives way to the others while it waits for the remote, so a task
   is a sequence of steps, one for each answer of the remote and the code
   that runs on it up to the next call. Only the Release pocket has
   publications; the refresh of the other pockets finds none and changes
   nothing. *)

RaceId == <<1, "noble", "core", "foo">>
RacePocket == "Release"
RaceLists == {<<[arch |-> "amd64", state |-> Failed]>>,
              <<[arch |-> "amd64", state |-> Successful]>>}

\* populate_packageset_maps has run twice with foo a member of core and of
\* desktop: both hold the SourcePackage of the published name map
InitRace ==
  /\ heap = [id \in {RaceId} |-> SourcePackage("foo", "noble")]
  /\ obs = NoObs
  /\ conf = [series |-> <<"noble">>, packagesets |-> <<"core", "desktop">>]
  /\ series_source_map = [s \in {"noble"} |-> [n \in {"foo"} |-> RaceId]]
  /\ series_packageset_source_map =
       ODPut(ODEmpty, "noble", ODPut(ODPut(ODEmpty, "core", {RaceId}), "desktop", {RaceId}))
  /\ series_queue_count_map = EmptyDict
  /\ pop = [pc |-> "idle", calls |-> 2, outcome |-> "returned", series_list |-> <<>>,
            sidx |-> 0, next |-> 0, acc_source_map |-> EmptyDict,
            acc_ps_map |-> ODEmpty, lock |-> 0]
  /\ tasks = <<>>
  /\ InitMetrics
  /\ InitLP

\* a new version of the source is published
Upload ==
  /\ date_created < MaxDate
  /\ date_created' = date_created + 1
  /\ UNCHANGED <<heap, obs, ubuntuVars, metricsVars, now, packageset_sources_cache, local,
                 queueVars, sched>>

RaceFrame ==
  /\ last' = [op |-> "fetch_latest_build_status"]
  /\ UNCHANGED <<conf, series_source_map, series_packageset_source_map, pop, tasks,
                 gauges, lpVars, queueVars, sched>>

\* the remote answers get_published_sources()[0], ubuntu.py:63-72: the
\* newest publication it has at that time
RaceAnswer(k) ==
  /\ cycle.pc = "pool"
  /\ cycle.tasks[k].pc = "queued"
  /\ cycle' = [cycle EXCEPT !.tasks[k] =
                 IF date_created = 0
                 THEN [id |-> @.id, pc |-> "done", outcomes |-> <<"no_publication">>, date |-> 0]
                 ELSE [id |-> @.id, pc |-> "latest_spph", outcomes |-> <<>>,
                       date |-> date_created]]
  /\ UNCHANGED <<heap, obs>>
  /\ RaceFrame

\* the thread goes on with the answer, ubuntu.py:76-85: the skip test, the
\* write of last_time_checked and the call of getBuilds
RaceSkipTest(k) ==
  /\ cycle.pc = "pool"
  /\ cycle.tasks[k].pc = "latest_spph"
  /\ LET id == cycle.tasks[k].id
         p == heap[id]
         date == cycle.tasks[k].date
         seen == AlreadySeen(p, RacePocket, date)
         p1 == IF seen THEN [p EXCEPT !.build_status = Vivify(@, RacePocket)] ELSE p
     IN IF seen /\ ~AnyBuildsNotSuccessful(p1, RacePocket)
        THEN /\ heap' = [heap EXCEPT ![id] = p1]
             /\ cycle' = [cycle EXCEPT !.tasks[k].pc = "done",
                                       !.tasks[k].outcomes = <<"skipped">>]
             /\ obs' = [NoObs EXCEPT !.id = id, !.pocket = RacePocket,
                                     !.outcome = "skipped", !.date = date]
        ELSE /\ heap' = [heap EXCEPT ![id] =
                           [p1 EXCEPT !.last_time_checked = Put(@, RacePocket, date)]]
             /\ cycle' = [cycle EXCEPT !.tasks[k].pc = "getBuilds"]
             /\ obs' = [NoObs EXCEPT !.id = id, !.pocket = RacePocket,
                                     !.outcome = "last_time_checked", !.date = date]
  /\ RaceFrame

\* getBuilds() answers, ubuntu.py:85-108: Unauthorized, or build records
\* that are written
RaceGetBuilds(k) ==
  /\ cycle.pc = "pool"
  /\ cycle.tasks[k].pc = "getBuilds"
  /\ LET id == cycle.tasks[k].id
         date == cycle.tasks[k].date
     IN \/ /\ UNCHANGED heap
           /\ cycle' = [cycle EXCEPT !.tasks[k].pc = "done",
                                     !.tasks[k].outcomes = <<"unauthorized">>]
           /\ obs' = [NoObs EXCEPT !.id = id, !.pocket = RacePocket,
                                   !.outcome = "unauthorized", !.date = date,
                                   !.calls = {"getBuilds"}]
        \/ \E b \in RaceLists :
             /\ heap' = [heap EXCEPT ![id].build_status =
                           RecordBuilds(@, RacePocket, VersionOf(date), b, 1)]
             /\ cycle' = [cycle EXCEPT !.tasks[k].pc = "done",
                                       !.tasks[k].outcomes = <<"build_records">>]
             /\ obs' = [NoObs EXCEPT !.id = id, !.pocket = RacePocket,
                                     !.outcome = "build_records", !.date = date,
                                     !.version = VersionOf(date), !.builds = b,
                                     !.calls = {"getBuilds"}]
  /\ RaceFrame

\* the with block of ubuntu.py:321-325 ends when every task has ended
RaceEnd ==
  /\ cycle.pc = "pool"
  /\ \A k \in DOMAIN cycle.tasks : cycle.tasks[k].pc = "done"
  /\ cycle' = [cycle EXCEPT !.pc = "idle", !.series = "", !.tasks = <<>>]
  /\ last' = [op |-> "fetch_build_statuses_done"]
  /\ UNCHANGED <<heap, obs, conf, series_source_map, series_packageset_source_map, pop, tasks,
                 gauges, lpVars, queueVars, sched>>

NextRace ==
  \/ Upload
  \/ CycleBegin("noble")
  \/ \E k \in DOMAIN cycle.tasks : RaceAnswer(k)
  \/ \E k \in DOMAIN cycle.tasks : RaceSkipTest(k)
  \/ \E k \in DOMAIN cycle.tasks : RaceGetBuilds(k)
  \/ RaceEnd

SpecRace == InitRace /\ [][NextRace]_vars

----------------------------------------------------------------------------
(* Properties of the tracker, checked under SpecTrack *)

\* build_status as the spec reads it: the (pocket, arch) -> (version, state)
\* entries; a pocket key holding an empty dict contributes none
Entries(p) ==
  UNION {{<<pocket, a, p.build_status[pocket][a]>> : a \in DOMAIN p.build_status[pocket]} :
           pocket \in DOMAIN p.build_status}

\* the pocket's part of the tracker state: last_checked[pocket] (0 when
\* never checked) and the pocket's build entries
PocketState(p, pocket) ==
  <<IF pocket \in DOMAIN p.last_time_checked THEN p.last_time_checked[pocket] ELSE 0,
    {e \in Entries(p) : e[1] = pocket}>>

AllStoredSuccessful(p, pocket) ==
  \A e \in Entries(p) : e[1] = pocket => e[3][2] = Successful

\* the architectures of a list of records and the places of one of them
ArchesOf(records) == {records[i].arch : i \in 1..Len(records)}
PlacesOf(records, a) == {i \in 1..Len(records) : records[i].arch = a}
Min(S) == CHOOSE x \in S : \A y \in S : x <= y

\* the entry of (pocket, a): <<version, state>>, or <<>> when there is none
EntryOf(p, pocket, a) ==
  IF pocket \in DOMAIN p.build_status /\ a \in DOMAIN p.build_status[pocket]
  THEN p.build_status[pocket][a] ELSE <<>>

C3_UnauthorizedUnchanged ==
  [][obs'.outcome = "unauthorized"
       => PocketState(sp', obs'.pocket) = PocketState(sp, obs'.pocket)]_vars

\* C5 (fallback path): in a refresh that is not skipped, non-empty build
\* records are recorded, with the publication's version, for exactly their
\* architectures and the binary publications are not asked for; with empty
\* build records the binary publications are walked in order and each
\* architecture gets the state of the first build seen for it.
C5_FallbackPath ==
  [][\A pocket \in Pockets :
       (obs'.pocket = pocket /\ obs'.outcome \in {"build_records", "binaries"})
       => /\ Len(obs'.builds) > 0 =>
               /\ "getPublishedBinaries" \notin obs'.calls
               /\ \A a \in Architectures :
                    IF a \in ArchesOf(obs'.builds)
                    THEN \E i \in PlacesOf(obs'.builds, a) :
                           EntryOf(sp', pocket, a) = <<obs'.version, obs'.builds[i].state>>
                    ELSE EntryOf(sp', pocket, a) = EntryOf(sp, pocket, a)
          /\ Len(obs'.builds) = 0 =>
               /\ "getPublishedBinaries" \in obs'.calls
               /\ \A a \in Architectures :
                    IF a \in ArchesOf(obs'.bpphs)
                    THEN EntryOf(sp', pocket, a) =
                           <<obs'.version, obs'.bpphs[Min(PlacesOf(obs'.bpphs, a))].state>>
                    ELSE EntryOf(sp', pocket, a) = EntryOf(sp, pocket, a)
          /\ \A q \in Pockets \ {pocket}, a \in Architectures :
               EntryOf(sp', q, a) = EntryOf(sp, q, a)]_vars

\* the fallback has just walked two binary publications of one architecture
\* whose builds differ in state, and the first one's state is what is stored
C5_Witness ==
  /\ obs.outcome = "binaries"
  /\ Len(obs.bpphs) = 2
  /\ obs.bpphs[1].arch = obs.bpphs[2].arch
  /\ obs.bpphs[1].state # obs.bpphs[2].state
  /\ EntryOf(sp, obs.pocket, obs.bpphs[1].arch) = <<obs.version, obs.bpphs[1].state>>

\* the task met an authorization error in one of its pockets
HitUnauthorized(t) == \E i \in DOMAIN t.outcomes : t.outcomes[i] = "unauthorized"

\* C4 (Unauthorized resilience): in a fetch_build_statuses call in which one
\* task met an authorization error, every other task is still run, and its
\* run is the whole per-pocket refresh of its source against the answers of
\* the remote, with the build states that refresh stores; when the call ends
\* no other task is left unrun.
C4_UnauthorizedResilience ==
  [][\A k, j \in DOMAIN cycle.tasks :
       (cycle.pc = "pool" /\ k # j /\ HitUnauthorized(cycle.tasks[k])) =>
         /\ cycle'.pc = "idle" => cycle.tasks[j].pc \in {"done", "failed"}
         /\ (cycle'.pc = "pool" /\ cycle.tasks[j].pc = "queued"
                /\ cycle'.tasks[j].pc # "queued") =>
              \E answer \in WalkAnswers(heap[cycle.tasks[j].id]) :
                LET walked == WalkPockets(heap[cycle.tasks[j].id], answer, 1, <<>>) IN
                /\ heap'[cycle.tasks[j].id] = walked.sp
                /\ cycle'.tasks[j].pc = walked.pc
                /\ cycle'.tasks[j].outcomes = walked.outcomes]_vars

\* a call about to end in which one task met an authorization error and the
\* task of another source stored a failed build read from the binaries
C4_Witness ==
  /\ cycle.pc = "pool"
  /\ \A k \in DOMAIN cycle.tasks : cycle.tasks[k].pc # "queued"
  /\ \E k, j \in DOMAIN cycle.tasks :
       /\ cycle.tasks[k].id # cycle.tasks[j].id
       /\ HitUnauthorized(cycle.tasks[k])
       /\ cycle.tasks[j].pc = "done"
       /\ cycle.tasks[j].outcomes[3] = "binaries"
       /\ <<"Release", "amd64", <<VersionOf(1), Failed>>>> \in Entries(heap[cycle.tasks[j].id])

\* the (packageset of the view, source) pairs whose stored state for the
\* pocket and the architecture is "Failed to build"
FailedIn(pocket, a) ==
  {x \in UNION {{<<i, id>> : id \in View[i].sources} : i \in DOMAIN View} :
     \E e \in Entries(heap[x[2]]) : e[1] = pocket /\ e[2] = a /\ e[3][2] = Failed}

\* C6 (failed-build aggregation): after update_packageset_count_metrics the
\* count of every pocket and architecture is the number of sources, summed
\* over the series and packagesets of the view, whose stored state there is
\* "Failed to build"; a pocket and architecture nobody failed in has no count.
C6_FailedBuildAggregation ==
  last.op = "update_packageset_count_metrics" =>
    \A pocket \in Pockets, a \in Architectures :
      IF FailedIn(pocket, a) = {} THEN <<pocket, a>> \notin DOMAIN last.failed_builds
      ELSE /\ <<pocket, a>> \in DOMAIN last.failed_builds
           /\ last.failed_builds[<<pocket, a>>] = Cardinality(FailedIn(pocket, a))

\* after an update, one source of the view failed on Release amd64, another
\* was built there, and the count is 1
C6_Witness ==
  /\ last.op = "update_packageset_count_metrics"
  /\ Cardinality(FailedIn("Release", "amd64")) = 1
  /\ last.failed_builds[<<"Release", "amd64">>] = 1
  /\ \E i \in DOMAIN View : \E id \in View[i].sources :
       <<"Release", "amd64", <<VersionOf(1), Successful>>>> \in Entries(heap[id])

\* how long before the lookup the entry it found had been stored
AgeBefore(call) == call.at - (call.before.expires - PackagesetSourcesTTL)

\* C7 (cache contract with expiry): a get_packageset_sources lookup that finds
\* an entry stored less than 60 minutes before returns the stored value and
\* does not ask the remote; a lookup that finds no entry, or one stored more
\* than 60 minutes before, asks the remote, stores the answer under the key
\* and returns it; a value that is returned without asking the remote was
\* never stored longer than 60 minutes before.
C7_CacheContract ==
  last.op = "get_packageset_sources" =>
    /\ (last.before # NoEntry /\ AgeBefore(last) < 60 * 60) =>
          (~last.computed /\ last.value = last.before.value)
    /\ (last.before = NoEntry \/ AgeBefore(last) > 60 * 60) =>
          /\ last.computed
          /\ (~last.raised /\ now = last.at) =>
                /\ last.key \in DOMAIN packageset_sources_cache
                /\ packageset_sources_cache[last.key].value = last.value
                /\ packageset_sources_cache[last.key].expires = last.at + 60 * 60
    /\ ~last.computed => (last.before # NoEntry /\ AgeBefore(last) <= 60 * 60)

\* a lookup 61 minutes or more after the entry was stored asked the remote
\* and got another member list than the one stored
C7_Witness ==
  /\ last.op = "get_packageset_sources"
  /\ last.before # NoEntry
  /\ AgeBefore(last) >= 61 * 60
  /\ last.computed /\ ~last.raised
  /\ last.value # last.before.value
  /\ \E key \in DOMAIN packageset_sources_cache :
       key # last.key /\ now < packageset_sources_cache[key].expires

\* the number of uploads waiting in one queue of the remote
Waiting(uploads, series_name, status, pocket) ==
  Cardinality({i \in DOMAIN uploads : uploads[i] = <<series_name, status, pocket>>})

\* C8 (queue completeness): after a fetch_queues call the queue-count map has
\* the series under consideration as its keys and, for each of them, the 5
\* pockets and under each the 2 statuses, 10 entries a series, every entry
\* the length of the remote's queue at this call, 0 for an empty queue;
\* nothing of an earlier map is left in it.  After update_queue_metrics the
\* gauge holds every entry of the map.
C8_QueueCompleteness ==
  /\ last.op = "fetch_queues" =>
       /\ DOMAIN series_queue_count_map = RangeOf(last.series_list)
       /\ \A s \in DOMAIN series_queue_count_map :
            /\ DOMAIN series_queue_count_map[s] =
                 {"Release", "Security", "Updates", "Proposed", "Backports"}
            /\ \A p \in DOMAIN series_queue_count_map[s] :
                 /\ DOMAIN series_queue_count_map[s][p] = {"New", "Unapproved"}
                 /\ \A st \in DOMAIN series_queue_count_map[s][p] :
                      series_queue_count_map[s][p][st] = Waiting(last.uploads, s, st, p)
            /\ Cardinality({l \in QueueLabels(series_queue_count_map) : l[1] = s}) = 10
  /\ last.op = "update_queue_metrics" =>
       \A l \in QueueLabels(series_queue_count_map) :
         /\ l \in DOMAIN gauges.queue_number_packages
         /\ gauges.queue_number_packages[l] = series_queue_count_map[l[1]][l[2]][l[3]]

\* a fetch_queues call found two uploads in one queue of noble and none in
\* another that the gauge, set from an earlier map, still shows with one
C8_Witness ==
  /\ last.op = "fetch_queues"
  /\ series_queue_count_map["noble"]["Release"]["New"] = 2
  /\ series_queue_count_map["noble"]["Proposed"]["Unapproved"] = 0
  /\ <<"noble", "Proposed", "Unapproved">> \in DOMAIN gauges.queue_number_packages
  /\ gauges.queue_number_packages[<<"noble", "Proposed", "Unapproved">>] = 1

InitialFetch_Steps ==
  <<"populate_packageset_maps", "fetch_queues", "fetch_build_statuses",
    "update_packageset_count_metrics", "update_queue_metrics">>

\* a refresh loop exists
LoopsStarted == sched.fast # "new" \/ DOMAIN sched.slow # {}

\* C9 (start-up ordering): once the fast loop or a slow loop exists, start()
\* has populated the packageset maps, fetched the queues, run the build-status
\* fetch of every series it considered to its end and then set the packageset
\* gauges and the queue gauges, in this order; until then populate has run at
\* most once and fetch_build_statuses at most once per series; and as long as
\* no loop has fetched anything the packageset gauge shows the view as it is.
C9_StartupOrdering ==
  /\ LoopsStarted =>
       /\ sched.start = "serving"
       /\ sched.completed = InitialFetch_Steps
       /\ DOMAIN sched.initial = RangeOf(conf.series)
       /\ \A s \in DOMAIN sched.initial : sched.initial[s] = "done"
       /\ pop.calls >= 1 /\ pop.outcome # "none"
       /\ cycle.calls >= Cardinality(DOMAIN sched.initial)
       /\ \A s \in DOMAIN series_queue_count_map :
            Cardinality({l \in DOMAIN gauges.queue_number_packages : l[1] = s}) = 10
  /\ sched.start # "serving" =>
       /\ pop.calls <= 1
       /\ cycle.calls <= Cardinality(DOMAIN sched.initial)
  /\ (LoopsStarted /\ pop.calls = 1 /\ cycle.calls = Cardinality(DOMAIN sched.initial)) =>
       \A i \in DOMAIN View :
         /\ <<View[i].series, View[i].packageset>> \in DOMAIN gauges.packageset_number_packages
         /\ gauges.packageset_number_packages[<<View[i].series, View[i].packageset>>]
              = Cardinality(View[i].sources)

\* the fast loop is in its first periodic cycle, after a start() whose
\* initial fetch found builds for a source of core
C9_Witness ==
  /\ sched.start = "serving"
  /\ sched.fast = "fetch_queues"
  /\ pop.calls = 2
  /\ <<"noble", "core">> \in DOMAIN gauges.packageset_number_packages
  /\ gauges.packageset_number_packages[<<"noble", "core">>] = 1
  /\ <<"noble", "Release", "New">> \in DOMAIN gauges.queue_number_packages

\* what the fetches and the gauge updates write
fetched == <<heap, series_source_map, series_packageset_source_map, series_queue_count_map,
             gauges, pop, cycle>>

\* C10 (cooperative stop check): a loop that tests its stop event, at its
\* while or at the end of its wait, and finds it set returns at once: nothing
\* is fetched and no gauge is written by that step, and a loop that has
\* returned never works again; so a loop entered with the event set does no
\* cycle at all.
C10_CooperativeStop ==
  [][/\ (sched.fast \in {"enter", "waiting"} /\ sched'.fast # sched.fast
          /\ sched.stop_metrics_refresh_timer)
        => (sched'.fast = "returned" /\ UNCHANGED fetched)
     /\ sched.fast = "returned" => sched'.fast = "returned"
     /\ \A s \in DOMAIN sched.slow :
          /\ (sched.slow[s] \in {"enter", "waiting"} /\ sched'.slow[s] # sched.slow[s]
               /\ sched.stop_fetch_build_statuses_timer)
             => (sched'.slow[s] = "returned" /\ UNCHANGED fetched)
          /\ sched.slow[s] = "returned" => sched'.slow[s] = "returned"]_vars

\* the slow loop of noble woke from its wait with the event set and
\* returned; the fast loop has returned without a cycle of its own
C10_Witness ==
  /\ last = [op |-> "loop", loop |-> "noble", place |-> "wait", flag |-> TRUE]
  /\ sched.slow["noble"] = "returned"
  /\ sched.fast = "returned"
  /\ pop.calls = 1
  /\ cycle.calls = 1

\* C11 (shutdown liveness): once stop() has been called and the loops exist,
\* the fast loop and the loop of every series end; and a loop that is inside
\* a cycle goes on to the next call of the cycle whatever the events say: it
\* returns only from its while test or from its wait.
C11_ShutdownLiveness ==
  /\ (sched.stop_metrics_refresh_timer /\ sched.start = "serving") ~>
       /\ sched.stop_fetch_build_statuses_timer
       /\ sched.fast \in Ended
       /\ \A s \in DOMAIN sched.slow : sched.slow[s] \in Ended
  /\ [][/\ (sched.fast \in FastWork /\ sched'.fast # sched.fast)
            => sched'.fast \in (FastWork \cup {"enter", "raised"})
         /\ \A s \in DOMAIN sched.slow :
              (sched.slow[s] \in SlowWork /\ sched'.slow[s] # sched.slow[s])
              => sched'.slow[s] = "enter"]_vars

\* both events are set while the fast loop is inside its first cycle, past
\* populate_packageset_maps and about to fetch the queues
C11_Witness ==
  /\ sched.stop_metrics_refresh_timer
  /\ sched.stop_fetch_build_statuses_timer
  /\ sched.fast = "fetch_queues"
  /\ pop.calls = 2
  /\ sched.slow["noble"] = "fetch_build_statuses"

\* the calls of a cycle in which the remote raised
RemoteRaised == {"populate_packageset_maps_raised", "fetch_queues_raised"}

\* C12 (failure does not stop the exporter): a step of a refresh cycle in
\* which the remote raises leaves the published maps and the queue counts as
\* they were, and does not end the loop it happened in.
C12_FailureDoesNotStop ==
  [][(sched.fast \in FastWork /\ last'.op \in RemoteRaised)
       => /\ series_source_map' = series_source_map
          /\ series_packageset_source_map' = series_packageset_source_map
          /\ series_queue_count_map' = series_queue_count_map
          /\ sched'.fast \notin Ended]_vars

\* C13 (the SourcePackage set grows monotonically): a (series, name) of the
\* published name map is still in the published name map after every step.
C13_GrowsMonotonically ==
  [][\A s \in DOMAIN series_source_map :
       /\ s \in DOMAIN series_source_map'
       /\ DOMAIN series_source_map[s] \subseteq DOMAIN series_source_map'[s]]_vars

Max(S) == CHOOSE x \in S : \A y \in S : x >= y

\* C14 (re-check unless all successful): a refresh of a pocket whose
\* last_checked equals the creation time of the latest publication while some
\* stored build state of the pocket is not "Successfully built" is not
\* skipped: getBuilds is called again, and the build records it returns are
\* written over the stored entries of their architectures.
C14_RecheckUnlessAllSuccessful ==
  [][\A pocket \in Pockets :
       (/\ obs'.pocket = pocket
        /\ AlreadySeen(sp, pocket, obs'.date)
        /\ ~AllStoredSuccessful(sp, pocket))
       => /\ obs'.outcome # "skipped"
          /\ "getBuilds" \in obs'.calls
          /\ obs'.outcome = "build_records" =>
               \A a \in ArchesOf(obs'.builds) :
                 EntryOf(sp', pocket, a) =
                   <<obs'.version, obs'.builds[Max(PlacesOf(obs'.builds, a))].state>>]_vars

\* the publication of date 1 was fetched before (its arm64 entry is still
\* stored as failed) and has just been fetched again: the amd64 record of this
\* fetch is stored
C14_Witness ==
  /\ obs.outcome = "build_records"
  /\ obs.date = 1
  /\ ArchesOf(obs.builds) = {"amd64"}
  /\ EntryOf(sp, obs.pocket, "arm64") = <<VersionOf(1), Failed>>
  /\ EntryOf(sp, obs.pocket, "amd64") = <<VersionOf(1), Successful>>

\* what the source holds under one pocket: its keys included
PocketPart(p, pocket) ==
  <<IF pocket \in DOMAIN p.last_time_checked THEN <<p.last_time_checked[pocket]>> ELSE <<>>,
    IF pocket \in DOMAIN p.build_status THEN <<p.build_status[pocket]>> ELSE <<>>>>

\* C15 (no publication, no transition): in the walk of a task over the
\* pockets of its source, a pocket whose query returned nothing is followed
\* by the refresh of the next pocket, and what the source holds for that
\* pocket is as before the walk; a walk in which no pocket had a publication
\* ends normally and leaves the source as it was.
C15_NoPublicationNoTransition ==
  [][\A k \in DOMAIN cycle.tasks :
       (/\ cycle.pc = "pool" /\ cycle'.pc = "pool"
        /\ cycle.tasks[k].pc = "queued" /\ cycle'.tasks[k].pc # "queued")
       => LET o == cycle'.tasks[k].outcomes
              id == cycle.tasks[k].id
          IN /\ \A i \in DOMAIN o :
                  o[i] = "no_publication" =>
                    /\ i < Len(PocketOrder) => Len(o) > i
                    /\ PocketPart(heap'[id], PocketOrder[i]) = PocketPart(heap[id], PocketOrder[i])
             /\ (\A i \in DOMAIN o : o[i] = "no_publication") =>
                  /\ Len(o) = Len(PocketOrder)
                  /\ cycle'.tasks[k].pc = "done"
                  /\ heap'[id] = heap[id]]_vars

\* a task found no publication in the first two pockets, build records in
\* the third and went on to the last two
C15_Witness ==
  /\ cycle.pc = "pool"
  /\ \E k \in DOMAIN cycle.tasks :
       /\ cycle.tasks[k].pc = "done"
       /\ cycle.tasks[k].outcomes =
            <<"no_publication", "no_publication", "build_records",
              "no_publication", "no_publication">>
       /\ Entries(heap[cycle.tasks[k].id]) # {}

\* C16 (one task per distinct source): the tasks of a fetch_build_statuses
\* call are one for every SourcePackage of the series' packagesets, no two of
\* them for the same SourcePackage.
C16_OneTaskPerSource ==
  cycle.pc = "pool" =>
    /\ \A k, j \in DOMAIN cycle.tasks :
         k # j => cycle.tasks[k].id # cycle.tasks[j].id
    /\ LET packagesets == ODGet(series_packageset_source_map, cycle.series, ODEmpty)
       IN \A ps \in DOMAIN packagesets.at : \A id \in packagesets.at[ps] :
            \E k \in DOMAIN cycle.tasks : cycle.tasks[k].id = id

\* last_checked[pocket] of a source, 0 when the pocket was never checked
LastChecked(p, pocket) ==
  IF pocket \in DOMAIN p.last_time_checked THEN p.last_time_checked[pocket] ELSE 0

\* C17 (timestamp-monotone overwrite): in every step of the tasks of a call,
\* last_checked[pocket] does not decrease, and a build entry that changes is
\* written by a fetch whose publication was created at or after the
\* last_checked[pocket] stored at the write and gets a version that is not
\* older than the one it replaces.
C17_TimestampMonotone ==
  [][/\ LastChecked(heap'[RaceId], RacePocket) >= LastChecked(heap[RaceId], RacePocket)
     /\ \A a \in Architectures :
          EntryOf(heap'[RaceId], RacePocket, a) # EntryOf(heap[RaceId], RacePocket, a)
          => /\ obs'.date >= LastChecked(heap[RaceId], RacePocket)
             /\ EntryOf(heap[RaceId], RacePocket, a) # <<>> =>
                  EntryOf(heap'[RaceId], RacePocket, a)[1]
                    >= EntryOf(heap[RaceId], RacePocket, a)[1]]_vars

\* the state SpecRace starts in: both packagesets hold the SourcePackage of
\* the published name map after the second populate_packageset_maps call
RaceStateReached ==
  /\ pop.calls = 2 /\ pop.pc = "idle"
  /\ RaceId \in DOMAIN heap
  /\ series_source_map = [s \in {"noble"} |-> [n \in {"foo"} |-> RaceId]]
  /\ series_packageset_source_map =
       ODPut(ODEmpty, "noble", ODPut(ODPut(ODEmpty, "core", {RaceId}), "desktop", {RaceId}))

\* C18 (packages per packageset counts only built sources): right after
\* update_packageset_count_metrics the gauge of every packageset of the
\* published map is the number of its member sources that have at least one
\* (arch, state) entry recorded.
C18_CountsOnlyBuiltSources ==
  last.op = "update_packageset_count_metrics" =>
    \A s \in DOMAIN series_packageset_source_map.at :
      \A ps \in DOMAIN series_packageset_source_map.at[s].at :
        /\ <<s, ps>> \in DOMAIN gauges.packageset_number_packages
        /\ gauges.packageset_number_packages[<<s, ps>>] =
             Cardinality({id \in series_packageset_source_map.at[s].at[ps] :
                            Entries(heap[id]) # {}})

\* C19 (counters reflect current state only): right after
\* update_packageset_count_metrics every value the two packageset gauges
\* expose is the one derived from the state now: a package count belongs to
\* a packageset of the published map, and a failed-build count is the number
\* of sources whose stored state for its pocket and architecture is "Failed
\* to build", so none is positive where nobody fails any more.
C19_CountersReflectCurrentState ==
  last.op = "update_packageset_count_metrics" =>
    /\ \A key \in DOMAIN gauges.packageset_number_packages :
         \E i \in DOMAIN View :
           /\ View[i].series = key[1] /\ View[i].packageset = key[2]
           /\ gauges.packageset_number_packages[key] = Cardinality(View[i].sources)
    /\ \A key \in DOMAIN gauges.packageset_failed_builds :
         gauges.packageset_failed_builds[key] = Cardinality(FailedIn(key[3], key[4]))

\* the (series, name, SourcePackage) entries of a name map; a series key
\* holding an empty dict contributes none
NameEntries(m) == UNION {{<<s, n, m[s][n]>> : n \in DOMAIN m[s]} : s \in DOMAIN m}

\* C20 (merge happens-after all tasks): the published packageset map and the
\* entries of the published name map change only in a step taken when every
\* series of the call has been walked and no task of the call is left, and
\* that step puts the complete maps of the call in their place.
C20_MergeAfterAllTasks ==
  [][(\/ series_packageset_source_map' # series_packageset_source_map
      \/ NameEntries(series_source_map') # NameEntries(series_source_map))
       => /\ tasks = <<>>
          /\ pop.pc = "series" /\ pop.sidx > Len(pop.series_list)
          /\ series_packageset_source_map' = pop.acc_ps_map
          /\ series_source_map' = pop.acc_source_map]_vars

\* in the second call one task has returned a source and been merged while
\* another task of the call has not finished, and the published maps are
\* still those of the first call, which are not what has been merged
C20_Witness ==
  /\ pop.pc = "pool" /\ pop.calls = 2
  /\ \E k, j \in DOMAIN tasks :
       /\ tasks[k].pc = "done" /\ k < pop.next
       /\ tasks[k].source_map # EmptyDict
       /\ tasks[j].pc \in {"queued", "running"}
  /\ series_packageset_source_map # ODEmpty
  /\ series_packageset_source_map # pop.acc_ps_map
  /\ NameEntries(series_source_map) # NameEntries(pop.acc_source_map)

\* a task has gone on to its next source
Advanced(k) ==
  /\ k \in DOMAIN tasks /\ k \in DOMAIN tasks'
  /\ tasks'[k].packageset = tasks[k].packageset
  /\ tasks'[k].i = tasks[k].i + 1

TTLOf(kind) == IF kind = "queue_cache" THEN QueueTTL ELSE PackagesetSourcesTTL

\* C22 (the cache shields the remote across cycles): a lookup of a key that
\* the cycle before looked up less than the time limit of its cache ago (60
\* minutes for the member sources, 1 minute for a queue) is served from the
\* cache: it makes no call of the remote.
C22_CacheShieldsRemote ==
  [][(/\ last' # last
      /\ last'.key \in DOMAIN Lookups(last)
      /\ Lookups(last)[last'.key].cycle = last'.cycle - 1
      /\ last'.at - Lookups(last)[last'.key].at < TTLOf(last'.op))
       => ~last'.computed]_vars

\* C23 (bounded pool): within one worker pool at most 10 tasks execute at
\* any moment, however many are dispatched, and once the call has left the
\* pool no task of it is waiting or executing.
C23_BoundedPool ==
  /\ Cardinality(Running) <= MaxWorkers
  /\ ("returned" \in DOMAIN last /\ last.returned) =>
       \A k \in DOMAIN tasks : tasks[k].pc \notin {"queued", "running"}

\* ten tasks execute and one more, dispatched, waits for a worker
C23_Witness ==
  /\ Cardinality(Running) = MaxWorkers
  /\ \E k \in DOMAIN tasks : tasks[k].pc = "queued"

\* C24 (atomic publish on failure): once a packageset-fetch task of a
\* populate call has raised, and when the call has ended with the
\* exception, the published packageset map and the entries of the published
\* name map are what they were when the call began; the loop over the
\* results never gets past a task that raised, so such a call assigns
\* nothing.
C24_AtomicOnFailure ==
  /\ \A k \in DOMAIN tasks :
       tasks[k].pc = "raised" => pop.pc \in {"pool", "raising"} /\ pop.next <= k
  /\ (\/ \E k \in DOMAIN tasks : tasks[k].pc = "raised"
      \/ pop.pc = "raising"
      \/ pop.pc = "idle" /\ pop.outcome = "raised")
       => /\ series_packageset_source_map = last.packageset_source_map
          /\ NameEntries(series_source_map) = NameEntries(last.source_map)

\* the second call has ended with the exception of a task after it had
\* merged results that differ from what the first call published
C24_Witness ==
  /\ pop.pc = "raising"
  /\ pop.calls = 2
  /\ NameEntries(series_source_map) # {}
  /\ NameEntries(pop.acc_source_map) # {}
  /\ NameEntries(pop.acc_source_map) # NameEntries(series_source_map)

\* C25 (tracker state survives the membership refresh): a (series, name) of
\* the published name map that a populate call still finds in a considered
\* packageset of the series is published by the call under the same object
\* as before, and the call leaves that object's last_time_checked and
\* build_status as they are.
C25_TrackerSurvivesRefresh ==
  [][pop'.calls = pop.calls + 1 =>
       \A s \in DOMAIN series_source_map :
         \A n \in DOMAIN series_source_map[s] :
           (s \in DOMAIN series_source_map' /\ n \in DOMAIN series_source_map'[s]) =>
              /\ series_source_map'[s][n] = series_source_map[s][n]
              /\ series_source_map[s][n] \in DOMAIN heap'
              /\ heap'[series_source_map[s][n]] = heap[series_source_map[s][n]]]_vars

\* the second call has published, under the object the first call made, a
\* name whose builds were recorded in between
C25_Witness ==
  /\ pop.calls = 2
  /\ last.op = "populate_packageset_maps"
  /\ \E s \in DOMAIN series_source_map :
       \E n \in DOMAIN series_source_map[s] :
         /\ series_source_map[s][n][1] = 1
         /\ heap[series_source_map[s][n]].build_status # EmptyDict
         /\ heap[series_source_map[s][n]].last_time_checked # EmptyDict

====
